---- MODULE Spec2Model ----
(***************************************************************************)
(* A model of the state pipeline of mobius (src/src/mobius/state):         *)
(*                                                                         *)
(*   StoreSpec  PostgresStore.write_checkin / write_memory as concurrent   *)
(*              transactions over the ledger, tracks, check-in events,     *)
(*              memory cards and memory evidence (storage.py), under       *)
(*              PostgreSQL's READ COMMITTED rules: an INSERT that meets an *)
(*              uncommitted row with the same unique key waits for that    *)
(*              transaction; SELECT ... FOR UPDATE waits for a row lock    *)
(*              and sees no uncommitted row.                               *)
(*   GuardSpec  StatePipeline._apply_grounding_guards as a pure function   *)
(*              over texts that are sequences of characters (pipeline.py). *)
(*   TurnSpec   StatePipeline.process_turn, one step per call it makes     *)
(*              (pipeline.py), over the same store.                        *)
(*                                                                         *)
(* The three specifications share the variables; each leaves the others'   *)
(* variables at their initial value.                                       *)
(***************************************************************************)
EXTENDS Integers, Sequences, FiniteSets, TLC

VARIABLES
    db,       \* the committed tables of the relational store
    tx,       \* per connection: the open transaction of a write_* call
    calls,    \* history: every write_* call made, with its outcome
    faults,   \* number of injected store errors so far
    cfg,      \* config.state.decision and the pipeline's switches
    guard,    \* one _apply_grounding_guards call: its arguments and result
    paused,   \* StatePipeline._writes_temporarily_paused
    events,   \* the committed turn_events rows
    turns,    \* per process_turn call: its arguments, position and result
    mirror,   \* per user: the ledger rows export_user last rendered
    engine,   \* one StateDecisionEngine.decide call: its attempts and result
    merger    \* one MemoryEngine.apply call: candidates, verdict and result

(***************************************************************************)
(* Bounds and input sets.                                                  *)
(***************************************************************************)
MaxCalls == 3
MaxFaults == 1
MaxTextLen == 4

Conns == {1, 2}
Users == {"u1", "u2"}
Keys == {"k1", "k2"}
Slugs == {"s1"}
Domains == {"health"}
Ops == {"checkin", "memory"}
\* payload.narrative of a memory write: blank or not
Narratives == {"", "n"}

NoId == 0

(***************************************************************************)
(* The committed store.                                                    *)
(***************************************************************************)
EmptyDb ==
    [ users    |-> {},   \* users
      ledger   |-> {},   \* write_operations
      tracks   |-> {},   \* tracks
      checkins |-> {},   \* checkin_events
      cards    |-> {},   \* memory_cards
      evidence |-> {},   \* memory_evidence
      docs     |-> {} ]  \* semantic_documents

\* write_operations row with UNIQUE (user_id, idempotency_key)
LedgerRows(d, user, key) == {r \in d.ledger : r.user = user /\ r.key = key}

\* tracks row with UNIQUE (user_id, slug)
TrackRows(d, user, slug) == {r \in d.tracks : r.user = user /\ r.slug = slug}

\* memory_cards row with UNIQUE (user_id, domain, slug)
CardRows(d, user, domain, slug) ==
    {r \in d.cards : r.user = user /\ r.domain = domain /\ r.slug = slug}

IdOf(rows) == IF rows = {} THEN NoId ELSE (CHOOSE r \in rows : TRUE).id

(***************************************************************************)
(* A connection's transaction.  pc is the statement it runs next:          *)
(*   begin   INSERT INTO write_operations ... ON CONFLICT DO NOTHING       *)
(*   select  SELECT ... FROM tracks | memory_cards ... FOR UPDATE          *)
(*   upsert  UPDATE or INSERT of the track | card, the event | evidence    *)
(*           INSERT, the last_checkin_at UPDATE, _finish_write_operation   *)
(*   commit  conn.commit()                                                 *)
(* row is the id of the row SELECT ... FOR UPDATE returned (and locked),   *)
(* NoId when it returned none; occ is the occurrences it read.             *)
(***************************************************************************)
IdleTx ==
    [ pc |-> "idle", id |-> NoId, op |-> "checkin", user |-> "u1", key |-> "k1",
      domain |-> "health", slug |-> "s1", narrative |-> "", now |-> 0,
      turn |-> NoId, row |-> NoId, occ |-> 0 ]

\* the transaction holds an uncommitted write_operations row
HoldsLedger(t) == t.pc \in {"select", "upsert", "commit"}

\* the transaction holds the row lock SELECT ... FOR UPDATE took
HoldsRowLock(t) == t.pc \in {"upsert", "commit"} /\ t.row # NoId

\* the transaction holds an uncommitted INSERT of a new track | card
HoldsRowInsert(t) == t.pc = "commit" /\ t.row = NoId

SameTarget(t, u) ==
    /\ t.op = u.op
    /\ t.user = u.user
    /\ t.slug = u.slug
    /\ (t.op = "memory" => t.domain = u.domain)

TargetRows(d, t) ==
    IF t.op = "checkin" THEN TrackRows(d, t.user, t.slug)
    ELSE CardRows(d, t.user, t.domain, t.slug)

(***************************************************************************)
(* The statements of write_checkin and write_memory as operators on the    *)
(* committed store d and the transaction t.                                *)
(***************************************************************************)

\* (as if the INSERT had no ON CONFLICT target: it always returns a row)
BeginInsertedIgnoresConflict(d, t) == TRUE

\* INSERT ... ON CONFLICT (user_id, idempotency_key) DO NOTHING RETURNING id
\* returns a row iff no committed row owns the key
BeginInserted(d, t) == LedgerRows(d, t.user, t.key) = {}

\* SELECT id, occurrences ... FOR UPDATE: the committed row, if any
SelectedRow(d, t) == IdOf(TargetRows(d, t))

\* (as if the UPDATE did not count the write: occurrences stays 1)
SelectedOccNotCounted(d, t) == 0

SelectedOcc(d, t) ==
    IF t.op = "memory" /\ TargetRows(d, t) # {}
    THEN (CHOOSE r \in TargetRows(d, t) : TRUE).occurrences
    ELSE 0

\* (as if _finish_write_operation were never called)
LedgerRowWithoutRef(t, ref) ==
    [ id |-> t.id, user |-> t.user, key |-> t.key, channel |-> t.op,
      status |-> "applied", ref |-> NoId ]

\* the ledger row as _finish_write_operation leaves it
LedgerRow(t, ref) ==
    [ id |-> t.id, user |-> t.user, key |-> t.key, channel |-> t.op,
      status |-> "applied", ref |-> ref ]

\* (as if the UPDATE of an existing track left its status alone)
CommitCheckinKeepsStatus(d, t) ==
    LET old == {r \in d.tracks : r.id = t.row}
        trackId == IF t.row # NoId THEN t.row ELSE t.id
        new == IF t.row # NoId
               THEN {[r EXCEPT !.last_checkin_at = t.now] : r \in old}
               ELSE {[ id |-> t.id, user |-> t.user, slug |-> t.slug,
                       status |-> "active", last_checkin_at |-> t.now ]}
    IN  [d EXCEPT
            !.tracks = (d.tracks \ old) \cup new,
            !.checkins = d.checkins \cup
                {[ id |-> t.id, track |-> trackId, user |-> t.user, ts |-> t.now ]},
            !.ledger = d.ledger \cup {LedgerRow(t, t.id)}]

\* write_checkin's writes, made durable by conn.commit()
CommitCheckin(d, t) ==
    LET old == {r \in d.tracks : r.id = t.row}
        trackId == IF t.row # NoId THEN t.row ELSE t.id
        new == IF t.row # NoId
               THEN {[r EXCEPT !.status = "active", !.last_checkin_at = t.now] : r \in old}
               ELSE {[ id |-> t.id, user |-> t.user, slug |-> t.slug,
                       status |-> "active", last_checkin_at |-> t.now ]}
    IN  [d EXCEPT
            !.tracks = (d.tracks \ old) \cup new,
            !.checkins = d.checkins \cup
                {[ id |-> t.id, track |-> trackId, user |-> t.user, ts |-> t.now ]},
            !.ledger = d.ledger \cup {LedgerRow(t, t.id)}]

\* A card's narrative is the sequence of its entries.  INSERT stores
\* payload.narrative as it is: one entry without a timestamp, or no text.
FirstNarrative(t) ==
    IF t.narrative = "" THEN <<>> ELSE <<[at |-> NoId, piece |-> t.narrative]>>

\* merged_narrative: "- <now>: <piece>" is appended when the piece is not blank
MergedNarrative(existing_narrative, t) ==
    IF t.narrative # ""
    THEN Append(existing_narrative, [at |-> t.now, piece |-> t.narrative])
    ELSE existing_narrative

\* write_memory's writes, made durable by conn.commit()
CommitMemory(d, t) ==
    LET old == {r \in d.cards : r.id = t.row}
        cardId == IF t.row # NoId THEN t.row ELSE t.id
        new == IF t.row # NoId
               THEN {[r EXCEPT !.occurrences = t.occ + 1,
                               !.narrative = MergedNarrative(@, t),
                               !.last_seen = t.now] : r \in old}
               ELSE {[ id |-> t.id, user |-> t.user, domain |-> t.domain,
                       slug |-> t.slug, occurrences |-> 1,
                       narrative |-> FirstNarrative(t),
                       last_seen |-> t.now ]}
    IN  [d EXCEPT
            !.cards = (d.cards \ old) \cup new,
            !.evidence = d.evidence \cup
                {[ id |-> t.id, card |-> cardId, evidence_ref |-> t.turn ]},
            !.ledger = d.ledger \cup {LedgerRow(t, cardId)}]

CommitWrites(d, t) == IF t.op = "checkin" THEN CommitCheckin(d, t) ELSE CommitMemory(d, t)

\* (as if the ledger row were committed on its own before the domain writes)
RollbackKeepsLedger(d, t) ==
    IF HoldsLedger(t) THEN [d EXCEPT !.ledger = d.ledger \cup {LedgerRow(t, NoId)}] ELSE d

\* conn.rollback(): nothing the transaction wrote becomes durable
Rollback(d, t) == d

(***************************************************************************)
(* StoreSpec: the calls as concurrent transactions.                        *)
(***************************************************************************)
\* StateDecisionConfig's defaults; the pipeline as constructed
DefaultCfg ==
    [ strict_grounding |-> TRUE, facts_only |-> TRUE, on_failure |-> "footer_warning" ]

GuardIdle == [ pc |-> "idle" ]

Turns == {1, 2}

\* no projection has been written
EmptyMirror == [u \in Users |-> {}]

EngineIdle == [ pc |-> "idle" ]

MergerIdle == [ pc |-> "idle" ]

\* the empty string process_turn returns
EmptyFooter == [ kind |-> "empty", lines |-> <<>> ]

\* a process_turn call that has not been made
IdleTurn ==
    [ pc |-> "idle", user |-> "u1", payload |-> <<>>, user_text |-> <<>>,
      precomputed |-> <<>>, decision |-> <<>>,
      handed |-> [checkin |-> <<>>, memory |-> <<>>],
      items |-> <<>>, footer |-> EmptyFooter,
      turn_id |-> NoId, raised |-> FALSE, faulted |-> "none", pre |-> {} ]

StoreInit ==
    /\ cfg = DefaultCfg
    /\ guard = GuardIdle
    /\ paused = TRUE
    /\ events = {}
    /\ turns = [t \in Turns |-> IdleTurn]
    /\ mirror = EmptyMirror
    /\ engine = EngineIdle
    /\ merger = MergerIdle
    /\ db = EmptyDb
    /\ tx = [p \in Conns |-> IdleTx]
    /\ calls = <<>>
    /\ faults = 0

\* the calls that have returned or raised
Ended == {i \in 1..Len(calls) : calls[i].status # "running"}

Finish(p, status, err) ==
    /\ calls' = [calls EXCEPT ![tx[p].id].status = status,
                              ![tx[p].id].err = err,
                              ![tx[p].id].wrote = (db' # db)]
    /\ tx' = [tx EXCEPT ![p] = IdleTx]

\* User ids and idempotency keys are opaque: the first call's are named u1 and
\* k1, and a second name is used only once the first one is in use.
UsedUsers == {calls[i].user : i \in 1..Len(calls)}
UsedKeys == {calls[i].key : i \in 1..Len(calls)}
FreshOrUsed(all, first, used) == {x \in all : x = first \/ first \in used}

\* a caller enters write_checkin or write_memory: now = datetime.now(), connect
\* (each call modelled is made for a turn of its own: turn_id = id)
StartCall(p) ==
    /\ tx[p].pc = "idle"
    /\ Len(calls) < MaxCalls
    /\ \E op \in Ops, user \in FreshOrUsed(Users, "u1", UsedUsers),
          key \in FreshOrUsed(Keys, "k1", UsedKeys), domain \in Domains, slug \in Slugs,
          narrative \in Narratives :
        LET id == Len(calls) + 1 IN
        /\ op = "checkin" => narrative = ""
        /\ tx' = [tx EXCEPT ![p] =
                [ pc |-> "begin", id |-> id, op |-> op, user |-> user, key |-> key,
                  domain |-> domain, slug |-> slug, narrative |-> narrative,
                  now |-> id, turn |-> id, row |-> NoId, occ |-> 0 ]]
        /\ calls' = Append(calls,
                [ op |-> op, user |-> user, key |-> key, domain |-> domain,
                  slug |-> slug, narrative |-> narrative, pre |-> Ended,
                  status |-> "running", err |-> "none", wrote |-> FALSE ])
    /\ UNCHANGED <<db, faults>>

\* UNIQUE (user_id, idempotency_key): the ledger INSERT of p waits while
\* another open transaction holds an uncommitted row with the same key
\* (as if the ledger had no unique constraint to wait on)
LedgerInsertNeverWaits(p) == FALSE

LedgerInsertWaits(p) ==
    \E q \in Conns \ {p} :
        HoldsLedger(tx[q]) /\ tx[q].user = tx[p].user /\ tx[q].key = tx[p].key

\* FOR UPDATE: the SELECT of p waits while another open transaction holds
\* the lock of the same row
RowLockWaits(p) ==
    \E q \in Conns \ {p} : HoldsRowLock(tx[q]) /\ SameTarget(tx[q], tx[p])

\* (as if tracks and memory_cards had no unique constraint)
RowInsertNeverWaits(p) == FALSE

\* UNIQUE (user_id, slug) | (user_id, domain, slug): the INSERT of p waits
\* while another open transaction holds an uncommitted row with the same key
RowInsertWaits(p) ==
    \E q \in Conns \ {p} : HoldsRowInsert(tx[q]) /\ SameTarget(tx[q], tx[p])

\* _begin_write_operation, and the skipped_duplicate return of its caller
BeginWriteOperation(p) ==
    LET t == tx[p] IN
    /\ t.pc = "begin"
    /\ ~LedgerInsertWaits(p)
    /\ IF BeginInserted(db, t)
       THEN /\ tx' = [tx EXCEPT ![p].pc = "select"]
            /\ UNCHANGED <<db, calls, faults>>
       ELSE /\ db' = Rollback(db, t)
            /\ Finish(p, "skipped_duplicate", "none")
            /\ UNCHANGED faults

\* SELECT ... FOR UPDATE on the track or the memory card
SelectForUpdate(p) ==
    LET t == tx[p] IN
    /\ t.pc = "select"
    /\ ~RowLockWaits(p)
    /\ tx' = [tx EXCEPT ![p].pc = "upsert",
                        ![p].row = SelectedRow(db, t),
                        ![p].occ = SelectedOcc(db, t)]
    /\ UNCHANGED <<db, calls, faults>>

\* UPDATE of the selected row, or INSERT of a new one under the unique
\* constraint; then the event | evidence INSERT and _finish_write_operation
Upsert(p) ==
    LET t == tx[p] IN
    /\ t.pc = "upsert"
    /\ IF t.row # NoId
       THEN /\ tx' = [tx EXCEPT ![p].pc = "commit"]
            /\ UNCHANGED <<db, calls, faults>>
       ELSE /\ ~RowInsertWaits(p)
            /\ IF TargetRows(db, t) = {}
               THEN /\ tx' = [tx EXCEPT ![p].pc = "commit"]
                    /\ UNCHANGED <<db, calls, faults>>
               ELSE /\ db' = Rollback(db, t)
                    /\ Finish(p, "raised", "UniqueViolation")
                    /\ UNCHANGED faults

\* conn.commit() and the applied return
Commit(p) ==
    LET t == tx[p] IN
    /\ t.pc = "commit"
    /\ db' = CommitWrites(db, t)
    /\ Finish(p, "applied", "none")
    /\ UNCHANGED faults

\* a statement after the ledger insert raises (connection lost, statement
\* error): except Exception: conn.rollback(); raise
Fault(p) ==
    LET t == tx[p] IN
    /\ t.pc \in {"select", "upsert", "commit"}
    /\ faults < MaxFaults
    /\ faults' = faults + 1
    /\ db' = Rollback(db, t)
    /\ Finish(p, "raised", "fault")

StoreNext ==
    /\ \E p \in Conns :
        \/ StartCall(p)
        \/ BeginWriteOperation(p)
        \/ SelectForUpdate(p)
        \/ Upsert(p)
        \/ Commit(p)
        \/ Fault(p)
    /\ UNCHANGED <<cfg, guard, paused, events, turns, mirror, engine, merger>>

vars == <<db, tx, calls, faults, cfg, guard, paused, events, turns, mirror, engine, merger>>

StoreSpec == StoreInit /\ [][StoreNext]_vars

(***************************************************************************)
(* Claims about the store.                                                 *)
(***************************************************************************)
CallIds == 1..Len(calls)

SameKey(i, j) == calls[i].user = calls[j].user /\ calls[i].key = calls[j].key

SameRow(i, j) ==
    /\ calls[i].op = calls[j].op
    /\ calls[i].user = calls[j].user
    /\ calls[i].slug = calls[j].slug
    /\ (calls[i].op = "memory" => calls[i].domain = calls[j].domain)

\* call j was made after call i had ended
After(i, j) == i \in calls[j].pre

\* calls i and j ran as overlapping transactions
Overlap(i, j) == i # j /\ ~After(i, j) /\ ~After(j, i)

Returned(i) == calls[i].status \in {"applied", "skipped_duplicate"}

\* C1: of the calls that reuse one (user_id, idempotency_key) at most one
\* returns applied; every call made after a committed one returns
\* skipped_duplicate, and a call that returns skipped_duplicate leaves every
\* table as it was.
C1_AtMostOneApplied ==
    /\ \A i, j \in CallIds :
          (i # j /\ SameKey(i, j) /\ calls[i].status = "applied")
              => calls[j].status # "applied"
    /\ \A i, j \in CallIds :
          (SameKey(i, j) /\ calls[i].status = "applied" /\ After(i, j)
                /\ calls[j].status # "running")
              => calls[j].status = "skipped_duplicate"
    /\ \A j \in CallIds : calls[j].status = "skipped_duplicate" => ~calls[j].wrote

C1_Witness ==
    \E i, j \in CallIds :
        /\ SameKey(i, j) /\ After(i, j)
        /\ calls[i].status = "applied" /\ calls[i].wrote
        /\ calls[j].status = "skipped_duplicate"

\* C2: two open transactions never both hold a ledger row for one
\* (user_id, idempotency_key), and none holds one for a key that is already
\* committed; of two overlapping calls with one key that both return, at
\* most one returns applied, the other returns skipped_duplicate without
\* writing, and both return skipped_duplicate only when a third call owns
\* the key.
C2_OneLedgerWinner ==
    /\ \A p, q \in Conns :
          (p # q /\ HoldsLedger(tx[p]) /\ HoldsLedger(tx[q]))
              => ~(tx[p].user = tx[q].user /\ tx[p].key = tx[q].key)
    /\ \A p \in Conns :
          HoldsLedger(tx[p]) => LedgerRows(db, tx[p].user, tx[p].key) = {}
    /\ \A u \in Users, k \in Keys : Cardinality(LedgerRows(db, u, k)) <= 1
    /\ \A i, j \in CallIds :
          (Overlap(i, j) /\ SameKey(i, j) /\ Returned(i) /\ Returned(j))
              => /\ ~(calls[i].status = "applied" /\ calls[j].status = "applied")
                 /\ calls[j].status = "skipped_duplicate" => ~calls[j].wrote
                 /\ (calls[i].status = "skipped_duplicate"
                        /\ calls[j].status = "skipped_duplicate")
                      => \E k \in CallIds \ {i, j} :
                            SameKey(i, k) /\ calls[k].status = "applied"

C2_Witness ==
    \E i, j \in CallIds :
        /\ Overlap(i, j) /\ SameKey(i, j)
        /\ calls[i].status = "applied"
        /\ calls[j].status = "skipped_duplicate"
        /\ \A k \in CallIds \ {i, j} : ~SameKey(i, k)

\* the rows call i left in the committed store
RowsOf(i) ==
    {r \in db.ledger \cup db.tracks \cup db.checkins \cup db.cards \cup db.evidence :
        r.id = i}

\* C4: a call that raises after its ledger insert leaves no trace (it changes
\* no table and no row of its own is committed, the ledger row included), so
\* a call returns skipped_duplicate only when a call that returned applied
\* owns the key: after a failed attempt the key can be applied again.
C4_FailedAttemptLeavesNoTrace ==
    /\ \A i \in CallIds :
          calls[i].status = "raised" => (~calls[i].wrote /\ RowsOf(i) = {})
    /\ \A j \in CallIds :
          calls[j].status = "skipped_duplicate"
              => \E i \in CallIds \ {j} : SameKey(i, j) /\ calls[i].status = "applied"

C4_Witness ==
    \E i, j \in CallIds :
        /\ SameKey(i, j) /\ After(i, j)
        /\ calls[i].status = "raised" /\ calls[i].err = "fault"
        /\ calls[j].status = "applied"

\* no other call uses the key of call i
FreshKey(i) == \A k \in CallIds \ {i} : ~SameKey(i, k)

\* C5 (as claimed): two overlapping calls of one operation into the same row
\* (same user and slug, different idempotency keys), neither hit by a store
\* error, both return applied, whether or not the row existed before.
C5_OverlappingWritesBothApplied ==
    \A i, j \in CallIds :
        (/\ Overlap(i, j) /\ SameRow(i, j) /\ ~SameKey(i, j)
         /\ FreshKey(i) /\ FreshKey(j)
         /\ calls[i].status # "running" /\ calls[j].status # "running"
         /\ calls[i].err # "fault" /\ calls[j].err # "fault")
            => /\ calls[i].status = "applied"
               /\ calls[j].status = "applied"

(***************************************************************************)
(* Texts are sequences of characters.                                      *)
(***************************************************************************)
TextChars == {"I", "i", "t", " "}

AllTexts == UNION {[1..n -> TextChars] : n \in 0..MaxTextLen}

\* str.lower(), on the characters in use
Lower(c) ==
    CASE c = "I" -> "i"
      [] c = "T" -> "t"
      [] c = "H" -> "h"
      [] OTHER -> c

\* the characters \s matches and str.strip() strips
IsSpace(c) == c \in {" ", "\n", "\t"}

RECURSIVE LStrip(_)
LStrip(s) ==
    IF s = <<>> THEN <<>>
    ELSE IF IsSpace(Head(s)) THEN LStrip(Tail(s)) ELSE s

RECURSIVE RStrip(_)
RStrip(s) ==
    IF s = <<>> THEN <<>>
    ELSE IF IsSpace(s[Len(s)]) THEN RStrip(SubSeq(s, 1, Len(s) - 1)) ELSE s

\* (as if the text were not stripped)
StripKeepsText(s) == s

\* str.strip()
Strip(s) == RStrip(LStrip(s))

\* re.sub(r"\s+", " ", s)
RECURSIVE CollapseSpace(_)
CollapseSpace(s) ==
    IF s = <<>> THEN <<>>
    ELSE IF IsSpace(Head(s)) THEN <<" ">> \o CollapseSpace(LStrip(Tail(s)))
    ELSE <<Head(s)>> \o CollapseSpace(Tail(s))

LowerText(s) == [i \in 1..Len(s) |-> Lower(s[i])]

\* re.sub(r"\s+", " ", text.strip()).lower()
NormalizeText(s) == LowerText(CollapseSpace(Strip(s)))

\* q in u
IsSubstring(q, u) ==
    \E i \in 1..(Len(u) - Len(q) + 1) : SubSeq(u, i, i + Len(q) - 1) = q

\* str.startswith
StartsWith(s, prefix) ==
    Len(prefix) <= Len(s) /\ SubSeq(s, 1, Len(prefix)) = prefix

\* (as if the empty-quote test were missing: "" in user is True)
ContainsEvidenceNoEmptyTest(user_text, evidence) ==
    LET user == NormalizeText(user_text)
        quote == NormalizeText(evidence)
    IN  quote = <<>> \/ IsSubstring(quote, user)

\* StatePipeline._contains_evidence
ContainsEvidence(user_text, evidence) ==
    LET user == NormalizeText(user_text)
        quote == NormalizeText(evidence)
    IN  IF user = <<>> \/ quote = <<>> THEN FALSE ELSE IsSubstring(quote, user)

AmbiguousPrefixes ==
    { <<"i", "t", " ">>,
      <<"t", "h", "i", "s", " ">>,
      <<"t", "h", "a", "t", " ">>,
      <<"t", "h", "e", "s", "e", " ">>,
      <<"t", "h", "o", "s", "e", " ">>,
      <<"t", "h", "e", "y", " ">>,
      <<"h", "e", " ">>,
      <<"s", "h", "e", " ">>,
      <<"t", "h", "e", "r", "e", " ">>,
      <<"h", "e", "r", "e", " ">> }

\* StatePipeline._looks_ambiguous_memory
LooksAmbiguousMemory(text) ==
    LET normalized == LowerText(Strip(text)) IN
    IF normalized = <<>> THEN TRUE
    ELSE \E prefix \in AmbiguousPrefixes : StartsWith(normalized, prefix)

(***************************************************************************)
(* Decisions.  A channel is <<>> (None) or <<w>> (a write).  A reason is a *)
(* sequence of tokens: words, tags and the separators "|" and ",".         *)
(***************************************************************************)
NoWrite == <<>>

\* ",".join(parts)
RECURSIVE JoinComma(_)
JoinComma(parts) ==
    IF Len(parts) <= 1 THEN parts
    ELSE <<Head(parts), ",">> \o JoinComma(Tail(parts))

\* StatePipeline._decision_with_channel_reasons
DecisionWithChannelReasons(decision) ==
    LET top_reason == IF decision.reason = <<>> THEN <<"state-model">> ELSE decision.reason
        failure_reason == IF decision.is_failure THEN top_reason ELSE <<>>
        Channel(reason, missing) ==
            IF reason # <<>> THEN reason
            ELSE IF failure_reason # <<>>
                 THEN <<"not written (">> \o failure_reason \o <<")">>
                 ELSE <<missing>>
    IN  [decision EXCEPT
            !.reason = top_reason,
            !.checkin_reason =
                Channel(@, "missing check-in reason from state decision model"),
            !.memory_reason =
                Channel(@, "missing memory reason from state decision model")]

\* StatePipeline._apply_grounding_guards
ApplyGroundingGuards(decision, user_text, c) ==
    IF ~c.strict_grounding /\ ~c.facts_only
    THEN DecisionWithChannelReasons(decision)
    ELSE
    LET Grounded(item) == ContainsEvidence(user_text, item)
        hasCheckin == decision.checkin # NoWrite
        cw == decision.checkin[1]
        cev == Strip(cw.evidence)
        dropCheckin == hasCheckin /\ c.strict_grounding /\ ~Grounded(cev)
        checkin ==
            IF ~hasCheckin \/ dropCheckin THEN NoWrite
            ELSE IF c.facts_only
            THEN << [cw EXCEPT
                        !.summary = IF cev # <<>> THEN cev ELSE @,
                        !.wins = SelectSeq(@, Grounded),
                        !.barriers = SelectSeq(@, Grounded),
                        !.next_actions = SelectSeq(@, Grounded),
                        !.tags = <<>>,
                        !.evidence = cev] >>
            ELSE decision.checkin
        hasMemory == decision.memory # NoWrite
        mw == decision.memory[1]
        mev == Strip(mw.evidence)
        dropMemory == hasMemory /\ c.strict_grounding /\ ~Grounded(mev)
        memory_text == IF mev # <<>> THEN mev ELSE mw.memory
        ambiguous == hasMemory /\ ~dropMemory /\ LooksAmbiguousMemory(memory_text)
        memory ==
            IF ~hasMemory \/ dropMemory \/ ambiguous THEN NoWrite
            ELSE IF c.facts_only
            THEN << [mw EXCEPT !.memory = Strip(memory_text), !.evidence = mev] >>
            ELSE decision.memory
        reason_parts ==
            (IF dropCheckin THEN <<"check-in-filtered-missing-evidence">> ELSE <<>>)
            \o (IF dropMemory THEN <<"memory-filtered-missing-evidence">>
                ELSE IF ambiguous THEN <<"memory-filtered-ambiguous">> ELSE <<>>)
        suffix == JoinComma(reason_parts)
        reason ==
            IF reason_parts = <<>> THEN decision.reason
            ELSE IF decision.reason # <<>> THEN decision.reason \o <<"|">> \o suffix
            ELSE suffix
    IN  DecisionWithChannelReasons(
            [decision EXCEPT
                !.checkin = checkin,
                !.memory = memory,
                !.checkin_reason =
                    IF dropCheckin
                    THEN <<"filtered out: evidence not found in user text">> ELSE @,
                !.memory_reason =
                    IF dropMemory
                    THEN <<"filtered out: evidence not found in user text">>
                    ELSE IF ambiguous THEN <<"filtered out: ambiguous memory text">>
                    ELSE @,
                !.reason = reason])

(***************************************************************************)
(* GuardSpec: _apply_grounding_guards applied to one decision and one user *)
(* text under each setting of strict_grounding and facts_only.  The        *)
(* evidence of one channel ranges over all texts up to MaxTextLen.         *)
(***************************************************************************)
GuardUserTexts ==
    { <<>>,
      <<"I", "t", " ", "i">>,
      <<" ", "t", "\n", " ", "I">> }

GuardMemoryTexts ==
    { <<>>,
      <<"t", "i">>,
      <<"i", "t">>,
      <<"I", "t", " ", "t">>,
      <<" ", "h", "e", " ", "t">> }

GuardEvidence ==
    { <<>>,
      <<" ">>,
      <<"t", " ", "i">>,
      <<"I", "t", " ", "i">>,
      <<"t", "t">> }

GuardItems ==
    { <<>>,
      << <<"i">>, <<"t", "t">>, <<"T", " ", " ", "I">> >> }

GuardReasons == { <<>>, <<"detected">> }

CheckinWrite(evidence, items) ==
    [domain |-> "health", track_type |-> "goal", title |-> <<"t">>,
     summary |-> <<"t", "i">>, outcome |-> "note", confidence |-> 1,
     wins |-> items, barriers |-> items, next_actions |-> items,
     tags |-> <<"tag">>, evidence |-> evidence]

MemoryWrite(memory, evidence) ==
    [domain |-> "health", memory |-> memory, evidence |-> evidence]

StateDecision(checkin, memory, reason, is_failure) ==
    [checkin |-> checkin, memory |-> memory,
     checkin_reason |-> <<>>, memory_reason |-> <<>>,
     reason |-> reason, is_failure |-> is_failure]

\* decide's result when no attempt yields a valid decision
FailureDecision ==
    [ StateDecision(NoWrite, NoWrite, <<"state-model-unavailable">>, TRUE)
        EXCEPT !.checkin_reason = <<"state decision model unavailable">>,
               !.memory_reason = <<"state decision model unavailable">> ]

GuardDecisions ==
    { StateDecision(<<CheckinWrite(e, items)>>, NoWrite, <<"detected">>, FALSE) :
        e \in AllTexts, items \in GuardItems }
    \cup
    { StateDecision(NoWrite, <<MemoryWrite(m, e)>>, <<"detected">>, FALSE) :
        e \in AllTexts, m \in GuardMemoryTexts }
    \cup
    UNION { { StateDecision(<<CheckinWrite(ce, <<>>)>>, <<MemoryWrite(m, me)>>, r, FALSE) :
                ce \in GuardEvidence, me \in GuardEvidence }
            : m \in GuardMemoryTexts, r \in GuardReasons }
    \cup
    { FailureDecision, StateDecision(NoWrite, NoWrite, <<>>, FALSE) }

GuardInit ==
    /\ cfg \in [strict_grounding : BOOLEAN, facts_only : BOOLEAN,
                on_failure : {"footer_warning"}]
    /\ paused = TRUE
    /\ events = {}
    /\ turns = [t \in Turns |-> IdleTurn]
    /\ mirror = EmptyMirror
    /\ engine = EngineIdle
    /\ merger = MergerIdle
    /\ guard \in [pc : {"in"}, decision : GuardDecisions, user_text : GuardUserTexts]
    /\ db = EmptyDb
    /\ tx = [p \in Conns |-> IdleTx]
    /\ calls = <<>>
    /\ faults = 0

ApplyGuard ==
    /\ guard.pc = "in"
    /\ guard' = [pc |-> "out",
                 decision |-> guard.decision,
                 user_text |-> guard.user_text,
                 out |-> ApplyGroundingGuards(guard.decision, guard.user_text, cfg)]
    /\ UNCHANGED <<db, tx, calls, faults, cfg, paused, events, turns, mirror, engine, merger>>

GuardNext == ApplyGuard

GuardSpec == GuardInit /\ [][GuardNext]_vars

----
\* the evidence of write w, normalized as the claim says, fails the test
Ungrounded(w) ==
    \/ NormalizeText(w.evidence) = <<>>
    \/ ~IsSubstring(NormalizeText(w.evidence), NormalizeText(guard.user_text))

HasToken(reason, token) == \E i \in 1..Len(reason) : reason[i] = token

\* C6: with strict_grounding on, a check-in or memory write whose normalized
\* evidence is empty or is not a substring of the normalized user text is
\* absent from the guard's result, and the result's reason carries the tag
\* of the channel that was filtered.
C6_UngroundedWriteDropped ==
    (guard.pc = "out" /\ cfg.strict_grounding) =>
        /\ (guard.decision.checkin # NoWrite /\ Ungrounded(guard.decision.checkin[1])) =>
              /\ guard.out.checkin = NoWrite
              /\ HasToken(guard.out.reason, "check-in-filtered-missing-evidence")
        /\ (guard.decision.memory # NoWrite /\ Ungrounded(guard.decision.memory[1])) =>
              /\ guard.out.memory = NoWrite
              /\ HasToken(guard.out.reason, "memory-filtered-missing-evidence")

C6_Witness ==
    /\ guard.pc = "out"
    /\ cfg.strict_grounding
    /\ guard.decision.checkin # NoWrite
    /\ guard.decision.memory # NoWrite
    /\ NormalizeText(guard.decision.checkin[1].evidence) = <<>>
    /\ NormalizeText(guard.decision.memory[1].evidence) # <<>>
    /\ Ungrounded(guard.decision.memory[1])
    /\ guard.user_text # <<>>
    /\ guard.out.checkin = NoWrite
    /\ guard.out.memory = NoWrite
    /\ guard.out.reason = <<"detected", "|", "check-in-filtered-missing-evidence",
                            ",", "memory-filtered-missing-evidence">>

\* the text begins with one of the anaphors followed by a space
BeginsWithAnaphor(text) ==
    \E prefix \in AmbiguousPrefixes : StartsWith(LowerText(Strip(text)), prefix)

\* C7: under every setting of strict_grounding and facts_only, the guard's
\* result holds no memory write whose memory text begins with an ambiguous
\* anaphor.
C7_AnaphorMemoryDropped ==
    (guard.pc = "out" /\ guard.out.memory # NoWrite) =>
        ~BeginsWithAnaphor(guard.out.memory[1].memory)

\* C8: with facts_only on, a memory write that survives the guard carries
\* its (trimmed) evidence as memory text.
C8_SurvivorCarriesEvidence ==
    (guard.pc = "out" /\ cfg.facts_only /\ guard.out.memory # NoWrite) =>
        guard.out.memory[1].memory = Strip(guard.decision.memory[1].evidence)

(***************************************************************************)
(* TurnSpec: process_turn calls, interleaved at their awaits and store     *)
(* calls.  A store call is one step here: its transaction is the subject   *)
(* of StoreSpec.  The constructor leaves the pause switch on; the switch   *)
(* is an attribute of the pipeline and both of its positions are explored. *)
(***************************************************************************)
TurnUserText == <<"I", "t", " ", "i">>

GroundedEvidence == <<"t", " ", "i">>

UngroundedEvidence == <<"t", "t">>

\* request payloads: the fields of a dict in insertion order
Payloads ==
    { << <<"model", "mobius">>, <<"messages", "hi">> >>,
      << <<"messages", "hi">>, <<"model", "mobius">> >>,
      << <<"model", "mobius">>, <<"messages", "yo">> >> }

FirstPayload == << <<"model", "mobius">>, <<"messages", "hi">> >>

\* (as if json.dumps were called without sort_keys: insertion order counts)
RequestHashUnsorted(payload) == payload

\* _request_hash: SHA-256 of the JSON text with sorted keys, which is the
\* same for two payloads exactly when they hold the same fields
RequestHash(payload) == {payload[i] : i \in 1..Len(payload)}

\* (as if the key did not name the channel)
IdempotencyKeyWithoutChannel(request_hash, channel) == <<request_hash>>

\* f"{request_hash}:checkin", f"{request_hash}:memory"
IdempotencyKey(request_hash, channel) == <<request_hash, channel>>

\* what the decision engine may return for a turn
ModelDecisions ==
    { StateDecision(c, m, <<"detected">>, FALSE) :
        c \in { NoWrite,
                <<CheckinWrite(GroundedEvidence, <<>>)>>,
                <<CheckinWrite(UngroundedEvidence, <<>>)>> },
        m \in { NoWrite,
                <<MemoryWrite(<<"t", "i">>, GroundedEvidence)>>,
                <<MemoryWrite(<<"t", "i">>, UngroundedEvidence)>> } }
    \cup {FailureDecision}

\* what a caller may pass as precomputed_decision: the result of a preview
\* of the same text, or a decision of its own making
PrecomputedDecisions ==
    { ApplyGroundingGuards(
          StateDecision(<<CheckinWrite(GroundedEvidence, <<>>)>>,
                        <<MemoryWrite(<<"t", "i">>, GroundedEvidence)>>,
                        <<"detected">>, FALSE),
          TurnUserText, cfg),
      StateDecision(<<CheckinWrite(UngroundedEvidence, <<>>)>>,
                    <<MemoryWrite(<<"t", "i">>, UngroundedEvidence)>>,
                    <<"detected">>, FALSE) }

\* (as if every decision went on to the writes)
HasWritesAlways(decision) == TRUE

\* StateDecision.has_writes
HasWrites(decision) == decision.checkin # NoWrite \/ decision.memory # NoWrite

\* (as if on_failure were not consulted)
DecisionFailureFooterAlwaysWarns(decision) ==
    IF ~decision.is_failure THEN EmptyFooter
    ELSE [ kind |-> "warning",
           lines |-> << IF decision.reason # <<>> THEN decision.reason
                        ELSE <<"state-decision-failure">> >> ]

\* StatePipeline._decision_failure_footer
DecisionFailureFooter(decision) ==
    IF ~decision.is_failure THEN EmptyFooter
    ELSE IF cfg.on_failure # "footer_warning" THEN EmptyFooter
    ELSE [ kind |-> "warning",
           lines |-> << IF decision.reason # <<>> THEN decision.reason
                        ELSE <<"state-decision-failure">> >> ]

\* StatePipeline._format_footer
FormatFooter(items) ==
    IF items = <<>> THEN EmptyFooter
    ELSE [ kind |-> "writes",
           lines |-> [ i \in 1..Len(items) |->
                         [ channel |-> IF items[i].channel = "checkin"
                                       THEN "check-in" ELSE items[i].channel,
                           status |-> items[i].status ] ] ]

\* (as if the handler logged and raised again)
HandleExceptionReraises(turn) ==
    [turn EXCEPT !.pc = "done", !.raised = TRUE]

\* except Exception: log and return ""
HandleException(turn) ==
    [turn EXCEPT !.pc = "done", !.footer = EmptyFooter]

\* the ids of the rows a turn's write on a channel inserts
WriteId(t, op) == IF op = "checkin" THEN 2 * t - 1 ELSE 2 * t

\* the write_checkin | write_memory call of turn t
TurnWrite(t, op) ==
    [IdleTx EXCEPT
        !.id = WriteId(t, op),
        !.op = op,
        !.user = turns[t].user,
        !.key = IdempotencyKey(RequestHash(turns[t].payload), op),
        !.now = WriteId(t, op),
        !.turn = turns[t].turn_id]

\* write_checkin | write_memory as one transaction on the committed store
ApplyWrite(d, w) ==
    IF ~BeginInserted(d, w)
    THEN [ db |-> Rollback(d, w), status |-> "skipped_duplicate" ]
    ELSE [ db |-> CommitWrites(d, [w EXCEPT !.row = SelectedRow(d, w),
                                            !.occ = SelectedOcc(d, w)]),
           status |-> "applied" ]

TurnInit ==
    /\ cfg \in [strict_grounding : BOOLEAN, facts_only : BOOLEAN,
                on_failure : {"footer_warning", "silent"}]
    /\ paused \in BOOLEAN
    /\ guard = GuardIdle
    /\ db = EmptyDb
    /\ tx = [p \in Conns |-> IdleTx]
    /\ calls = <<>>
    /\ faults = 0
    /\ events = {}
    /\ turns = [t \in Turns |-> IdleTurn]
    /\ mirror = EmptyMirror
    /\ engine = EngineIdle
    /\ merger = MergerIdle

TurnsDone == {t \in Turns : turns[t].pc = "done"}

\* process_turn is called; it returns "" at once while paused
ProcessTurn(t) ==
    /\ turns[t].pc = "idle"
    /\ \A u \in Turns : u < t => turns[u].pc # "idle"
    /\ \E user \in (IF t = 1 THEN {"u1"} ELSE Users),
          payload \in (IF t = 1 THEN {FirstPayload} ELSE Payloads),
          pre \in {<<>>} \cup {<<d>> : d \in PrecomputedDecisions} :
        turns' = [turns EXCEPT ![t] =
                    [@ EXCEPT !.pc = IF paused THEN "done" ELSE "decide",
                              !.user = user,
                              !.payload = payload,
                              !.user_text = TurnUserText,
                              !.precomputed = pre,
                              !.pre = TurnsDone]]
    /\ UNCHANGED <<db, tx, calls, faults, cfg, guard, paused, events, mirror>>

\* decision = precomputed_decision or _decide_turn(...), then the channel
\* reasons and the return when the decision holds no write
DecideTurn(t) ==
    LET turn == turns[t]
        decided == IF turn.precomputed # <<>> THEN {turn.precomputed[1]}
                   ELSE {ApplyGroundingGuards(m, turn.user_text, cfg) : m \in ModelDecisions}
    IN
    /\ turn.pc = "decide"
    /\ \E d \in decided :
        LET decision == DecisionWithChannelReasons(d) IN
        turns' = [turns EXCEPT ![t] =
                    IF ~HasWrites(decision)
                    THEN [@ EXCEPT !.pc = "done",
                                   !.decision = <<decision>>,
                                   !.footer = DecisionFailureFooter(decision)]
                    ELSE [@ EXCEPT !.pc = "upsert", !.decision = <<decision>>]]
    /\ UNCHANGED <<db, tx, calls, faults, cfg, guard, paused, events, mirror>>

\* _ensure_user: INSERT INTO users ... ON CONFLICT (user_key) DO UPDATE SET
\* updated_at = NOW()
EnsureUser(d, user_key, now) ==
    [d EXCEPT !.users = {r \in @ : r.user_key # user_key}
                         \cup {[user_key |-> user_key, updated_at |-> now]}]

\* _find_user_id: SELECT id FROM users WHERE user_key = %s
FindUserId(d, user_key) == {r.user_key : r \in {q \in d.users : q.user_key = user_key}}

EventRows(user, request_hash) ==
    {e \in events : e.user = user /\ e.request_hash = request_hash}

\* upsert_turn_event: SELECT id FROM turn_events WHERE user_id, request_hash
SelectTurnEvent(t) ==
    /\ turns[t].pc = "upsert"
    /\ turns' = [turns EXCEPT ![t] =
                    [@ EXCEPT !.pc = "insert",
                              !.turn_id = IdOf(EventRows(turns[t].user,
                                                         RequestHash(turns[t].payload)))]]
    /\ UNCHANGED <<db, tx, calls, faults, cfg, guard, paused, events, mirror>>

\* upsert_turn_event: UPDATE the row found, or INSERT a new one; commit
\* (the commit also makes the users row of _ensure_user durable)
UpsertTurnEvent(t) ==
    /\ turns[t].pc = "insert"
    /\ db' = EnsureUser(db, turns[t].user, t)
    /\ events' = IF turns[t].turn_id # NoId THEN events
                 ELSE events \cup {[ id |-> t, user |-> turns[t].user,
                                     request_hash |-> RequestHash(turns[t].payload) ]}
    /\ turns' = [turns EXCEPT ![t] =
                    [@ EXCEPT !.pc = "checkin",
                              !.turn_id = IF @ # NoId THEN @ ELSE t]]
    /\ UNCHANGED <<tx, calls, faults, cfg, guard, paused, mirror>>

\* the step of process_turn for one channel: hand the write to its engine
ApplyChannel(t, op, next) ==
    LET turn == turns[t]
        write == IF op = "checkin" THEN turn.decision[1].checkin
                 ELSE turn.decision[1].memory
        r == ApplyWrite(db, TurnWrite(t, op))
    IN
    /\ turn.pc = op
    /\ IF write = NoWrite
       THEN /\ turns' = [turns EXCEPT ![t] = [@ EXCEPT !.pc = next]]
            /\ UNCHANGED db
       ELSE /\ db' = r.db
            /\ turns' = [turns EXCEPT ![t] =
                    [@ EXCEPT !.pc = next,
                              !.handed = [@ EXCEPT ![op] = write],
                              !.items = Append(@, [channel |-> op, status |-> r.status])]]
    /\ UNCHANGED <<tx, calls, faults, cfg, guard, paused, events, mirror>>

\* checkin_engine.apply(..., idempotency_key=f"{request_hash}:checkin")
ApplyCheckin(t) == ApplyChannel(t, "checkin", "memory")

\* memory_engine.apply(..., idempotency_key=f"{request_hash}:memory")
ApplyMemory(t) == ApplyChannel(t, "memory", "export")

\* (as if any returned item, applied or not, triggered the projection)
AnyItem(items) == items # <<>>

AnyApplied(items) == \E i \in 1..Len(items) : items[i].status = "applied"

\* list_write_operations(user_id, limit=500)
OpsLogLimit == 500

\* the rows _render_ops_log writes: SELECT ... FROM write_operations WHERE
\* user_id = %s ORDER BY created_at DESC LIMIT 500 (rows are created in the
\* order of their ids)
RenderedRows(d, user) ==
    LET rows == {r \in d.ledger : r.user = user}
    IN  IF Cardinality(rows) <= OpsLogLimit THEN rows
        ELSE {r \in rows : Cardinality({q \in rows : q.id > r.id}) < OpsLogLimit}

\* projection_sync.export_user if a write applied; return _format_footer
ExportUser(t) ==
    LET items == IF AnyApplied(turns[t].items)
                 THEN Append(turns[t].items, [channel |-> "projection", status |-> "applied"])
                 ELSE turns[t].items
    IN
    /\ turns[t].pc = "export"
    /\ turns' = [turns EXCEPT ![t] =
                    [@ EXCEPT !.pc = "done", !.items = items, !.footer = FormatFooter(items)]]
    /\ mirror' = IF AnyApplied(turns[t].items)
                 THEN [mirror EXCEPT ![turns[t].user] = RenderedRows(db, turns[t].user)]
                 ELSE mirror
    /\ UNCHANGED <<db, tx, calls, faults, cfg, guard, paused, events>>

\* the steps of the try block that call the store, a model or the file system
CanRaise(turn) ==
    \/ turn.pc = "decide" /\ turn.precomputed = <<>>
    \/ turn.pc \in {"upsert", "insert"}
    \/ turn.pc = "checkin" /\ turn.decision[1].checkin # NoWrite
    \/ turn.pc = "memory" /\ turn.decision[1].memory # NoWrite
    \/ turn.pc = "export" /\ AnyApplied(turn.items)

\* the step raises: its transaction is rolled back, the handler runs
TurnFault(t) ==
    /\ CanRaise(turns[t])
    /\ faults < MaxFaults
    /\ faults' = faults + 1
    /\ turns' = [turns EXCEPT ![t] =
                    HandleException([@ EXCEPT !.faulted = turns[t].pc])]
    /\ UNCHANGED <<db, tx, calls, cfg, guard, paused, events, mirror>>

\* The read calls of the pipeline.  guard holds the call in progress and its
\* result until it returns; a read runs between the steps of the turns.
NoTurnRunning == \A t \in Turns : turns[t].pc \in {"idle", "done"}

\* the rows fetch_context_snapshot returns: none when _find_user_id finds no user
SnapshotRows(d, user) ==
    IF FindUserId(d, user) = {} THEN {}
    ELSE {r \in d.tracks : r.user = user /\ r.status = "active"}
         \cup {r \in d.checkins \cup d.cards : r.user = user}

\* context_for_prompt: "" while paused or when the fetch raises, else the
\* context of the snapshot
ContextRead ==
    /\ guard = GuardIdle
    /\ NoTurnRunning
    /\ \E user \in Users, raises \in BOOLEAN :
        guard' = [ pc |-> "context_for_prompt", user |-> user,
                   out |-> IF paused \/ raises THEN {} ELSE SnapshotRows(db, user) ]
    /\ UNCHANGED <<db, tx, calls, faults, cfg, paused, events, turns, mirror>>

\* what the model answers in a preview: a decision with both writes, or a failure
PreviewDecisions ==
    { StateDecision(<<CheckinWrite(GroundedEvidence, <<>>)>>,
                    <<MemoryWrite(<<"t", "i">>, UngroundedEvidence)>>,
                    <<"detected">>, FALSE),
      FailureDecision }

\* preview_turn: None while paused, else _decide_turn's decision
PreviewTurn ==
    /\ guard = GuardIdle
    /\ NoTurnRunning
    /\ \E user \in Users, m \in PreviewDecisions :
        guard' = [ pc |-> "preview_turn", user |-> user,
                   out |-> IF paused THEN <<>>
                           ELSE <<ApplyGroundingGuards(m, TurnUserText, cfg)>> ]
    /\ UNCHANGED <<db, tx, calls, faults, cfg, paused, events, turns, mirror>>

\* the read call returns to its caller
ReadReturns ==
    /\ guard # GuardIdle
    /\ guard' = GuardIdle
    /\ UNCHANGED <<db, tx, calls, faults, cfg, paused, events, turns, mirror>>

TurnNext ==
    /\ \E t \in Turns :
        \/ ProcessTurn(t)
        \/ DecideTurn(t)
        \/ SelectTurnEvent(t)
        \/ UpsertTurnEvent(t)
        \/ ApplyCheckin(t)
        \/ ApplyMemory(t)
        \/ ExportUser(t)
        \/ TurnFault(t)
    /\ UNCHANGED <<engine, merger>>

TurnSpec == TurnInit /\ [][TurnNext]_vars

\* ReadSpec: the turns of TurnSpec together with the read calls
ReadInit == TurnInit /\ cfg.on_failure = "footer_warning"

ReadNext ==
    /\ \/ /\ guard = GuardIdle
          /\ \E t \in Turns :
               \/ ProcessTurn(t)
               \/ DecideTurn(t)
               \/ SelectTurnEvent(t)
               \/ UpsertTurnEvent(t)
               \/ ApplyCheckin(t)
               \/ ApplyMemory(t)
               \/ ExportUser(t)
               \/ TurnFault(t)
       \/ ContextRead
       \/ PreviewTurn
       \/ ReadReturns
    /\ UNCHANGED <<engine, merger>>

ReadSpec == ReadInit /\ [][ReadNext]_vars

----
\* the fields of a payload: two dicts are equal when these are
PayloadFields(payload) == {payload[i] : i \in 1..Len(payload)}

\* two process_turn calls with the same user and an identical payload
SameRequest(i, j) ==
    /\ i # j
    /\ turns[i].pc # "idle"
    /\ turns[j].pc # "idle"
    /\ turns[i].user = turns[j].user
    /\ PayloadFields(turns[i].payload) = PayloadFields(turns[j].payload)

\* the write engine of the channel returned this status to turn t
Wrote(t, op, status) ==
    \E k \in 1..Len(turns[t].items) :
        turns[t].items[k].channel = op /\ turns[t].items[k].status = status

\* the footer turn t returned lists the channel with this status
Reports(t, op, status) ==
    /\ turns[t].pc = "done"
    /\ turns[t].footer.kind = "writes"
    /\ \E k \in 1..Len(turns[t].footer.lines) :
        /\ turns[t].footer.lines[k].channel = (IF op = "checkin" THEN "check-in" ELSE op)
        /\ turns[t].footer.lines[k].status = status

\* C3 (as stated): of two process_turn calls with the same user and an
\* identical payload, the second reports skipped_duplicate for each channel
\* that the first call applied.
C3_SecondCallReportsDuplicate ==
    \A i, j \in Turns :
        (SameRequest(i, j) /\ i \in turns[j].pre /\ turns[j].pc = "done") =>
            \A op \in Ops :
                Wrote(i, op, "applied") => Reports(j, op, "skipped_duplicate")

\* C3 (amended): two process_turn calls with the same user and an identical
\* payload apply at most one write per channel; on a channel the first call
\* applied, every write the second call attempts is a skipped_duplicate and
\* its footer never reports applied.
C3_AtMostOneAppliedPerChannel ==
    \A i, j \in Turns :
        SameRequest(i, j) =>
            \A op \in Ops :
                /\ ~(Wrote(i, op, "applied") /\ Wrote(j, op, "applied"))
                /\ (i \in turns[j].pre /\ Wrote(i, op, "applied")) =>
                      /\ ~Reports(j, op, "applied")
                      /\ turns[j].handed[op] # NoWrite =>
                            Wrote(j, op, "skipped_duplicate")

C3_Witness ==
    \E i, j \in Turns :
        /\ SameRequest(i, j)
        /\ i \in turns[j].pre
        /\ turns[i].payload # turns[j].payload
        /\ \A op \in Ops :
            /\ Reports(i, op, "applied")
            /\ Reports(j, op, "skipped_duplicate")
        /\ Cardinality(db.checkins) = 1
        /\ Cardinality(db.evidence) = 1

\* C9: every write process_turn hands to a write engine is what the guard
\* returns for it under that turn's user text (the guard leaves its own
\* results unchanged, so a write is a result of the guard exactly when the
\* guard maps it to itself).
C9_HandedWritesAreGuardOutput ==
    \A t \in Turns :
        LET handed == turns[t].handed
            guarded == ApplyGroundingGuards(
                           StateDecision(handed.checkin, handed.memory, <<>>, FALSE),
                           turns[t].user_text, cfg)
        IN  /\ guarded.checkin = handed.checkin
            /\ guarded.memory = handed.memory

\* C10: process_turn never raises; when a step of its try block raises
\* (context fetch or decision engine, turn upsert, a write engine,
\* projection sync) it returns the empty string.
C10_ProcessTurnNeverRaises ==
    \A t \in Turns :
        /\ ~turns[t].raised
        /\ turns[t].faulted # "none" =>
              /\ turns[t].pc = "done"
              /\ turns[t].footer = EmptyFooter

C10_Witness ==
    \E t \in Turns :
        /\ turns[t].faulted = "memory"
        /\ Wrote(t, "checkin", "applied")
        /\ turns[t].pc = "done"
        /\ turns[t].footer = EmptyFooter
        /\ ~turns[t].raised

\* the decision engine reported state-model-unavailable to turn t
EngineFailed(t) ==
    /\ turns[t].pc = "done"
    /\ turns[t].precomputed = <<>>
    /\ turns[t].decision # <<>>
    /\ turns[t].decision[1].is_failure
    /\ turns[t].decision[1].reason = <<"state-model-unavailable">>
    /\ ~HasWrites(turns[t].decision[1])

----
\* the write_memory calls that returned applied for the card's key
AppliedWrites(card) ==
    {i \in 1..Len(calls) :
        /\ calls[i].op = "memory"
        /\ calls[i].status = "applied"
        /\ calls[i].user = card.user
        /\ calls[i].domain = card.domain
        /\ calls[i].slug = card.slug}

\* the entries merges have appended to the card's narrative
MergeEntries(card) == {k \in 1..Len(card.narrative) : card.narrative[k].at # NoId}

\* C16: each memory card's occurrences equals the number of write_memory
\* calls that returned applied for its (user, domain, slug), and its
\* narrative holds one entry per merge into it (every applied call after
\* the one that created the card).
C16_OccurrencesAndNarrativeCountWrites ==
    \A card \in db.cards :
        /\ card.occurrences = Cardinality(AppliedWrites(card))
        /\ Cardinality(MergeEntries(card)) = Cardinality(AppliedWrites(card)) - 1

----
\* upsert_turn_event has returned to turn t
Upserted(t) == turns[t].pc \in {"checkin", "memory", "export"}

AppliedInTurn(t) == Wrote(t, "checkin", "applied") \/ Wrote(t, "memory", "applied")

\* export_user was called in turn t: it returned its item, or it raised
ExportCalled(t) == Wrote(t, "projection", "applied") \/ turns[t].faulted = "export"

\* C18: a process_turn execution in which a write engine committed a write
\* with status applied has run export_user by the time it ends.
C18_AppliedTurnIsProjected ==
    \A t \in Turns :
        (turns[t].pc = "done" /\ AppliedInTurn(t)) => ExportCalled(t)

\* C19: the mirror changes only in the step of a turn in which a write
\* engine reported applied; a turn without writes, or whose writes were all
\* skipped_duplicate, never runs export_user.
C19_ProjectionOnlyAfterApplied ==
    [][ /\ mirror' # mirror =>
            \E t \in Turns :
                /\ turns[t].pc = "export"
                /\ turns'[t].pc = "done"
                /\ AppliedInTurn(t)
        /\ \A t \in Turns :
            (Wrote(t, "projection", "applied")' /\ ~Wrote(t, "projection", "applied"))
                => AppliedInTurn(t) ]_vars

C19_Witness ==
    \E t \in Turns :
        /\ turns[t].pc = "done"
        /\ turns[t].faulted = "none"
        /\ Wrote(t, "checkin", "skipped_duplicate")
        /\ Wrote(t, "memory", "skipped_duplicate")
        /\ ~Wrote(t, "projection", "applied")
        /\ mirror[turns[t].user] = {r \in db.ledger : r.id \in {WriteId(t - 1, op) : op \in Ops}}

DropTags ==
    { "check-in-filtered-missing-evidence",
      "memory-filtered-missing-evidence",
      "memory-filtered-ambiguous" }

\* the footer of turn t shows the token
FooterCarries(t, token) ==
    /\ turns[t].footer.kind = "warning"
    /\ \E k \in 1..Len(turns[t].footer.lines) : HasToken(turns[t].footer.lines[k], token)

\* C20: when the guard dropped a write in a turn, the footer process_turn
\* returns for the turn carries the reason of the drop.
C20_DropReasonInFooter ==
    \A t \in Turns :
        (/\ turns[t].pc = "done"
         /\ turns[t].faulted = "none"
         /\ turns[t].precomputed = <<>>
         /\ turns[t].decision # <<>>) =>
            \A tag \in DropTags :
                HasToken(turns[t].decision[1].reason, tag) => FooterCarries(t, tag)

(***************************************************************************)
(* DecideSpec: one StateDecisionEngine.decide call.  Each model call ends  *)
(* in a transport error, a text that holds no JSON object, a JSON object   *)
(* of the wrong shape, or a payload that yields a decision.                *)
(***************************************************************************)
MaxRetries == 2

FailureKinds == {"transport", "unparseable", "shape"}

\* the decisions _decision_from_payload builds from the accepted payloads
ValidDecisions == ModelDecisions \ {FailureDecision}

ModelOutcomes ==
    { [kind |-> k, decision |-> <<>>] : k \in FailureKinds }
    \cup { [kind |-> "valid", decision |-> <<d>>] : d \in ValidDecisions }

\* decide's result for blank user text
EmptyTextDecision ==
    [ StateDecision(NoWrite, NoWrite, <<"empty-user-text">>, FALSE)
        EXCEPT !.checkin_reason = <<"empty user text">>,
               !.memory_reason = <<"empty user text">> ]

\* decide's result when state.decision.enabled is off
DisabledDecision ==
    [ StateDecision(NoWrite, NoWrite, <<"state-decision-disabled">>, FALSE)
        EXCEPT !.checkin_reason = <<"state decision disabled">>,
               !.memory_reason = <<"state decision disabled">> ]

\* (as if the loop ran one attempt more)
MaxAttemptsOneMore(e) == 2 + e.max_json_retries

\* max_attempts = 1 + max_json_retries
MaxAttempts(e) == 1 + e.max_json_retries

\* retry_feedback after a failed attempt
RetryFeedback(kind) ==
    CASE kind = "transport" -> "Model call failed with <error>. Return ONLY strict JSON matching the schema."
      [] kind = "unparseable" -> "Previous output was not parseable as a JSON object."
      [] kind = "shape" -> "Previous JSON did not match required schema keys/types."
      [] OTHER -> ""

\* (as if chat_completion were called outside the try block)
OnTransportErrorRaises(e) == [e EXCEPT !.pc = "done", !.raised = TRUE]

\* except Exception: log, set retry_feedback, continue
OnTransportError(e) ==
    [e EXCEPT !.attempt = @ + 1, !.feedback = RetryFeedback("transport")]

DecideInit ==
    /\ engine \in [ pc : {"idle"}, enabled : BOOLEAN, max_json_retries : 0..MaxRetries,
                    user_text : {<<>>, <<" ">>, TurnUserText},
                    attempt : {1}, feedback : {""}, calls : {<<>>},
                    result : {<<>>}, raised : {FALSE} ]
    /\ cfg = DefaultCfg
    /\ guard = GuardIdle
    /\ paused = TRUE
    /\ db = EmptyDb
    /\ tx = [p \in Conns |-> IdleTx]
    /\ calls = <<>>
    /\ faults = 0
    /\ events = {}
    /\ turns = [t \in Turns |-> IdleTurn]
    /\ mirror = EmptyMirror
    /\ merger = MergerIdle

\* decide up to the loop of _decide_with_model: blank text and a disabled
\* engine return without a model call
Decide ==
    /\ engine.pc = "idle"
    /\ engine' =
        IF Strip(engine.user_text) = <<>>
        THEN [engine EXCEPT !.pc = "done", !.result = <<EmptyTextDecision>>]
        ELSE IF ~engine.enabled
        THEN [engine EXCEPT !.pc = "done", !.result = <<DisabledDecision>>]
        ELSE [engine EXCEPT !.pc = "loop"]

\* one pass of the loop: the model call with the current feedback
ModelCall ==
    /\ engine.pc = "loop"
    /\ engine.attempt <= MaxAttempts(engine)
    /\ \E outcome \in ModelOutcomes :
        LET called == [engine EXCEPT !.calls =
                          Append(@, [feedback |-> engine.feedback, outcome |-> outcome])]
        IN  engine' =
              IF outcome.kind = "transport" THEN OnTransportError(called)
              ELSE IF outcome.kind = "valid"
              THEN [called EXCEPT !.pc = "done", !.result = outcome.decision]
              ELSE [called EXCEPT !.attempt = @ + 1,
                                  !.feedback = RetryFeedback(outcome.kind)]

\* the loop ends without a decision: decide returns state-model-unavailable
ReturnUnavailable ==
    /\ engine.pc = "loop"
    /\ engine.attempt > MaxAttempts(engine)
    /\ engine' = [engine EXCEPT !.pc = "done", !.result = <<FailureDecision>>]

DecideNext ==
    /\ \/ Decide
       \/ ModelCall
       \/ ReturnUnavailable
    /\ UNCHANGED <<db, tx, calls, faults, cfg, guard, paused, events, turns, mirror, merger>>

DecideSpec == DecideInit /\ [][DecideNext]_vars

----
\* every model call of the decide call failed, and there was one
AllAttemptsFailed ==
    /\ engine.calls # <<>>
    /\ \A k \in 1..Len(engine.calls) : engine.calls[k].outcome.kind \in FailureKinds

\* C12: decide never raises on model trouble; when every attempt ends in a
\* transport error or an unparseable or wrongly shaped output it returns a
\* decision without check-in and memory, is_failure true, reason
\* state-model-unavailable.
C12_DecideReturnsFailureDecision ==
    /\ ~engine.raised
    /\ (engine.pc = "done" /\ AllAttemptsFailed) =>
          /\ Len(engine.result) = 1
          /\ engine.result[1].checkin = NoWrite
          /\ engine.result[1].memory = NoWrite
          /\ engine.result[1].is_failure
          /\ engine.result[1].reason = <<"state-model-unavailable">>

C12_Witness ==
    /\ engine.pc = "done"
    /\ Len(engine.calls) = 3
    /\ engine.calls[1].outcome.kind = "transport"
    /\ engine.calls[2].outcome.kind = "unparseable"
    /\ engine.calls[3].outcome.kind = "shape"
    /\ engine.result = <<FailureDecision>>

\* C13: decide makes at most 1 + max_json_retries model calls, makes call
\* k+1 only after call k failed and passes it the feedback about that
\* failure, and returns the decision of the first valid output with no
\* further call.
C13_RetriesBoundedAndFedBack ==
    /\ Len(engine.calls) <= 1 + engine.max_json_retries
    /\ \A k \in 1..Len(engine.calls) :
        /\ k = 1 => engine.calls[k].feedback = ""
        /\ k > 1 =>
            /\ engine.calls[k - 1].outcome.kind \in FailureKinds
            /\ engine.calls[k].feedback # ""
            /\ engine.calls[k].feedback = RetryFeedback(engine.calls[k - 1].outcome.kind)
        /\ engine.calls[k].outcome.kind = "valid" =>
            /\ k = Len(engine.calls)
            /\ engine.pc = "done"
            /\ engine.result = engine.calls[k].outcome.decision

C13_Witness ==
    /\ engine.pc = "done"
    /\ engine.max_json_retries = 2
    /\ Len(engine.calls) = 3
    /\ engine.calls[1].outcome.kind = "shape"
    /\ engine.calls[2].outcome.kind = "transport"
    /\ engine.calls[3].outcome.kind = "valid"
    /\ engine.calls[3].feedback = RetryFeedback("transport")
    /\ engine.result = engine.calls[3].outcome.decision

(***************************************************************************)
(* MergeSpec: MemoryEngine.apply calls, one after another, on one store.   *)
(* Each call resolves a merge slug (recency and semantic candidates, the   *)
(* shortlist, the verification model's answers) and runs write_memory.     *)
(***************************************************************************)
MaxApplies == 3
MaxCandidateLimit == 2
MaxMergeRetries == 1

\* slugs that titles slugify to and that cards carry
MergeSlugs == {"s1", "s2"}

\* a target_slug that names no card
UnknownSlug == "zz"

\* None | "" for a slug
NoSlug == ""

\* the verification model's answers, as _llm_merge_decision reads them
VerifyOutcomes ==
    { [kind |-> k, target |-> NoSlug] : k \in {"transport", "invalid_json", "other_action"} }
    \cup { [kind |-> "new", target |-> s] : s \in {NoSlug, "s1"} }
    \cup { [kind |-> "merge", target |-> s] : s \in MergeSlugs \cup {NoSlug, UnknownSlug} }

NoOutcome == [kind |-> "none", target |-> NoSlug]

\* memory_cards rows WHERE user_id = %s AND domain = %s
UserCards(d, user, domain) == {r \in d.cards : r.user = user /\ r.domain = domain}

RECURSIVE RecentFirst(_, _)
\* ORDER BY last_seen DESC LIMIT n, as the sequence of slugs
RecentFirst(rows, n) ==
    IF rows = {} \/ n = 0 THEN <<>>
    ELSE LET top == CHOOSE r \in rows : \A q \in rows : q.last_seen <= r.last_seen
         IN  <<top.slug>> \o RecentFirst(rows \ {top}, n - 1)

\* list_memory_candidates
ListMemoryCandidates(d, user, domain, limit) == RecentFirst(UserCards(d, user, domain), limit)

\* semantic_memory_candidates: up to limit cards of the user and domain
\* whose embedding is within max_distance, nearest first; which ones and
\* in what order depends on the embeddings
SemanticMemoryCandidates(d, user, domain, limit) ==
    LET slugs == {r.slug : r \in {c \in UserCards(d, user, domain) :
                                       \E s \in d.docs : s.user = user /\ s.source_id = c.id}}
    IN  { q \in UNION {[1..k -> slugs] : k \in 0..limit} :
            \A i, j \in DOMAIN q : i # j => q[i] # q[j] }

InSeq(x, q) == \E i \in DOMAIN q : q[i] = x

\* merged_candidates: the semantic rows, then the recency rows not yet there
MergedCandidates(semantic, candidates) ==
    semantic \o SelectSeq(candidates, LAMBDA x : ~InSeq(x, semantic))

\* list(merged_candidates.values())[: candidate_limit]
Shortlist(merged, limit) == SubSeq(merged, 1, IF Len(merged) < limit THEN Len(merged) ELSE limit)

\* retry_feedback of _llm_merge_decision
MergeRetryFeedback(kind) ==
    CASE kind = "transport" -> "model failure <error>; output strict JSON schema."
      [] kind = "invalid_json" -> "previous output was not valid JSON."
      [] OTHER -> "invalid action/target_slug. use action merge|new and target_slug for merge."

\* return selected_slug if selected_slug in merged_candidates else None
ResolvedSlug(selected_slug, merged) ==
    IF selected_slug # NoSlug /\ InSeq(selected_slug, merged) THEN selected_slug ELSE NoSlug

\* (as if write_memory ignored merge_slug)
MemorySlugIgnoresMerge(merge_slug, title_slug) == title_slug

\* memory_slug = merge_slug or _slugify(payload.title)
MemorySlug(merge_slug, title_slug) == IF merge_slug # NoSlug THEN merge_slug ELSE title_slug

MergerInit ==
    [ pc |-> "idle", n |-> 0, user |-> "u1", key |-> "k1", title_slug |-> "s1",
      candidates |-> <<>>, semantic |-> <<>>, search_failed |-> FALSE,
      merged |-> <<>>, shortlist |-> <<>>, attempt |-> 1, feedback |-> "",
      accepted |-> NoOutcome, merge_slug |-> NoSlug, pre |-> {}, pre_docs |-> {},
      status |-> "none", synced |-> "none" ]

MergeInit ==
    /\ merger = MergerInit
    /\ cfg \in [ enabled : BOOLEAN, candidate_limit : 1..MaxCandidateLimit,
                 max_json_retries : 0..MaxMergeRetries ]
    /\ db = EmptyDb
    /\ guard = GuardIdle
    /\ paused = TRUE
    /\ tx = [p \in Conns |-> IdleTx]
    /\ calls = <<>>
    /\ faults = 0
    /\ events = {}
    /\ turns = [t \in Turns |-> IdleTurn]
    /\ mirror = EmptyMirror
    /\ engine = EngineIdle

\* (as if a failed candidate search ended the resolution with None)
ShortlistedSkipsOnSearchFailure(call, candidates, semantic, failed, limit) ==
    IF failed
    THEN [call EXCEPT !.pc = "write", !.candidates = candidates, !.search_failed = TRUE]
    ELSE [call EXCEPT !.pc = "verify", !.candidates = candidates, !.semantic = semantic,
                      !.merged = MergedCandidates(semantic, candidates),
                      !.shortlist = Shortlist(MergedCandidates(semantic, candidates), limit)]

\* _resolve_semantic_merge_slug after the candidate search: when the
\* embedding call or the similarity query raised, semantic_candidates is
\* still []; merged_candidates and the shortlist are built either way
Shortlisted(call, candidates, semantic, failed, limit) ==
    LET found == IF failed THEN <<>> ELSE semantic
        merged == MergedCandidates(found, candidates)
    IN  [call EXCEPT !.pc = "verify", !.candidates = candidates, !.semantic = found,
                     !.search_failed = failed, !.merged = merged,
                     !.shortlist = Shortlist(merged, limit)]

\* apply is called; _resolve_semantic_merge_slug up to the verification call
StartApply ==
    /\ merger.pc \in {"idle", "written", "raised"}
    /\ merger.n < MaxApplies
    /\ \E user \in FreshOrUsed(Users, "u1", {r.user : r \in db.ledger}),
          key \in FreshOrUsed(Keys, "k1", {r.key : r \in db.ledger}),
          title_slug \in FreshOrUsed(MergeSlugs, "s1", {r.slug : r \in db.cards}) :
        LET call == [MergerInit EXCEPT !.n = merger.n + 1, !.user = user, !.key = key,
                                       !.title_slug = title_slug]
            candidates == ListMemoryCandidates(db, user, "health", cfg.candidate_limit)
        IN  IF ~cfg.enabled \/ candidates = <<>>
            THEN merger' = [call EXCEPT !.pc = "write"]
            ELSE \/ \E semantic \in SemanticMemoryCandidates(db, user, "health", cfg.candidate_limit) :
                        merger' = Shortlisted(call, candidates, semantic, FALSE, cfg.candidate_limit)
                 \/ merger' = Shortlisted(call, candidates, <<>>, TRUE, cfg.candidate_limit)
    /\ UNCHANGED db

\* one pass of _llm_merge_decision's loop
VerifyCall ==
    /\ merger.pc = "verify"
    /\ merger.attempt <= 1 + cfg.max_json_retries
    /\ \E outcome \in VerifyOutcomes :
        merger' =
          IF outcome.kind = "merge" /\ outcome.target # NoSlug
          THEN [merger EXCEPT !.pc = "write", !.accepted = outcome,
                              !.merge_slug = ResolvedSlug(outcome.target, merger.merged)]
          ELSE IF outcome.kind = "new"
          THEN [merger EXCEPT !.pc = "write", !.accepted = outcome]
          ELSE [merger EXCEPT !.attempt = @ + 1,
                              !.feedback = MergeRetryFeedback(outcome.kind)]
    /\ UNCHANGED db

\* the loop ends without an accepted answer: return None
VerifyExhausted ==
    /\ merger.pc = "verify"
    /\ merger.attempt > 1 + cfg.max_json_retries
    /\ merger' = [merger EXCEPT !.pc = "write"]
    /\ UNCHANGED db

\* the write_memory call of apply
MergeWrite(m) ==
    [IdleTx EXCEPT !.id = m.n, !.op = "memory", !.user = m.user, !.key = m.key,
                   !.slug = MemorySlug(m.merge_slug, m.title_slug), !.now = m.n,
                   !.turn = m.n]

\* store.write_memory(..., merge_slug=merge_slug) returns its summary item
WriteMemory ==
    /\ merger.pc = "write"
    /\ LET written == ApplyWrite(db, MergeWrite(merger))
       IN  /\ db' = written.db
           /\ merger' = [merger EXCEPT !.pc = "sync", !.pre = db.cards,
                                       !.pre_docs = db.docs,
                                       !.status = written.status]

\* store.write_memory raises (connection or statement error): rolled back
WriteMemoryRaises ==
    /\ merger.pc = "write"
    /\ merger' = [merger EXCEPT !.pc = "raised", !.pre = db.cards, !.pre_docs = db.docs]
    /\ UNCHANGED db

\* INSERT INTO semantic_documents ... ON CONFLICT (source_type, source_id)
\* DO UPDATE: the row of the card holds the new text and embedding
UpsertMemoryEmbedding(d, user, memory_id, text_content) ==
    [d EXCEPT !.docs = {s \in @ : s.source_id # memory_id}
                        \cup {[ source_type |-> "memory_card", source_id |-> memory_id,
                                user |-> user, text_content |-> text_content ]}]

\* item.result_ref: the id of the card the write went into
ResultRef(d, m) ==
    IdOf(CardRows(d, m.user, "health", MemorySlug(m.merge_slug, m.title_slug)))

\* _sync_memory_embedding_if_possible, then apply returns the item.  The
\* text of write n is named n.  The embedding call or the upsert may raise:
\* the exception is logged and the row is left as it was.
SyncMemoryEmbedding ==
    /\ merger.pc = "sync"
    /\ IF ~cfg.enabled \/ merger.status # "applied"
       THEN /\ merger' = [merger EXCEPT !.pc = "written", !.synced = "skipped"]
            /\ UNCHANGED db
       ELSE \/ /\ db' = UpsertMemoryEmbedding(db, merger.user, ResultRef(db, merger), merger.n)
               /\ merger' = [merger EXCEPT !.pc = "written", !.synced = "upserted"]
            \/ /\ merger' = [merger EXCEPT !.pc = "written", !.synced = "failed"]
               /\ UNCHANGED db

MergeNext ==
    /\ \/ StartApply
       \/ VerifyCall
       \/ VerifyExhausted
       \/ WriteMemory
       \/ WriteMemoryRaises
       \/ SyncMemoryEmbedding
    /\ UNCHANGED <<tx, calls, faults, cfg, guard, paused, events, turns, mirror, engine>>

MergeSpec == MergeInit /\ [][MergeNext]_vars

----
\* _resolve_semantic_merge_slug has returned
Resolved == merger.pc \in {"write", "sync", "written", "raised"}

\* C14: _resolve_semantic_merge_slug returns a slug s only if the accepted
\* answer of the verification model is merge with target_slug s and s is one
\* of the slugs of the shortlist shown to the model; otherwise it returns
\* none.
C14_MergeSlugWasShortlisted ==
    (Resolved /\ merger.merge_slug # NoSlug) =>
        /\ merger.accepted.kind = "merge"
        /\ merger.accepted.target = merger.merge_slug
        /\ InSeq(merger.merge_slug, merger.shortlist)

\* the verification model answered merge with the slug of a shortlisted card
MergeAnswered ==
    /\ merger.accepted.kind = "merge"
    /\ InSeq(merger.accepted.target, merger.shortlist)

CardsOf(rows, m, slug) == {r \in rows : r.user = m.user /\ r.domain = "health" /\ r.slug = slug}

\* the card grew by one occurrence and no card was added
GrewByOne(m) ==
    /\ Cardinality(db.cards) = Cardinality(m.pre)
    /\ \E old \in CardsOf(m.pre, m, m.accepted.target) :
       \E new \in CardsOf(db.cards, m, m.accepted.target) :
          /\ new.id = old.id
          /\ new.occurrences = old.occurrences + 1

\* C15 as stated: whenever the model answers merge with the slug of a
\* shortlisted card, apply leaves that card with one occurrence more and
\* creates no second card.
C15_MergeAnswerGrowsCard ==
    (merger.pc = "written" /\ MergeAnswered) => GrewByOne(merger)

\* C15: when the model answers merge with the slug of a shortlisted card and
\* write_memory applies the write (its idempotency key is new), the write
\* goes into that card: its occurrences grows by one and no second card is
\* created.
C15_AppliedMergeGrowsCard ==
    (merger.pc = "written" /\ MergeAnswered /\ merger.status = "applied") =>
        /\ merger.merge_slug = merger.accepted.target
        /\ GrewByOne(merger)

C15_Witness ==
    /\ merger.pc = "written"
    /\ MergeAnswered
    /\ merger.status = "applied"
    /\ merger.accepted.target # merger.title_slug
    /\ \E r \in db.cards : r.slug = merger.accepted.target /\ r.occurrences = 2

----
\* C21: in every committed store state, after any interleaving of
\* write_checkin and write_memory calls, there is at most one track per
\* (user, slug) and at most one memory card per (user, domain, slug).
C21_UniqueTracksAndCards ==
    /\ \A u \in Users, g \in Slugs : Cardinality(TrackRows(db, u, g)) <= 1
    /\ \A u \in Users, m \in Domains, g \in Slugs :
          Cardinality(CardRows(db, u, m, g)) <= 1

\* two overlapping calls raced for a new row: one committed it, the other
\* hit the unique constraint
C21_Witness ==
    \E i, j \in CallIds :
        /\ Overlap(i, j) /\ SameRow(i, j)
        /\ calls[i].status = "applied"
        /\ calls[j].status = "raised" /\ calls[j].err = "UniqueViolation"
        /\ Cardinality(db.tracks) + Cardinality(db.cards) = 1

\* the ledger rows that name row id as their result
NamedBy(channel, id) == {r \in db.ledger : r.channel = channel /\ r.ref = id}

\* C23: in every committed store state the ledger and the domain tables
\* agree: each write_operations row has status applied and a result_ref that
\* names an existing check-in event (channel checkin) or memory card
\* (channel memory); each check-in event is named by exactly one ledger row;
\* every card, track and evidence row comes with the rows of its write.
C23_LedgerAgreesWithDomainTables ==
    /\ \A r \in db.ledger :
          /\ r.status = "applied"
          /\ r.channel = "checkin" => \E e \in db.checkins : e.id = r.ref
          /\ r.channel = "memory" => \E c \in db.cards : c.id = r.ref
    /\ \A e \in db.checkins :
          /\ Cardinality(NamedBy("checkin", e.id)) = 1
          /\ \E k \in db.tracks : k.id = e.track
    /\ \A c \in db.cards : NamedBy("memory", c.id) # {}
    /\ \A k \in db.tracks : \E e \in db.checkins : e.track = k.id
    /\ \A v \in db.evidence : \E c \in db.cards : c.id = v.card

\* a committed check-in and a committed memory write next to a call that
\* raised after its ledger insert
C23_Witness ==
    /\ \E r \in db.ledger : r.channel = "checkin"
    /\ \E r \in db.ledger : r.channel = "memory"
    /\ \E i \in CallIds : calls[i].status = "raised"
    /\ Cardinality(db.ledger) = 2

(***************************************************************************)
(* ConfigSpec: load_config for the state section.  The YAML values are     *)
(* validated, the MOBIUS_STATE_* environment overrides are assigned, and   *)
(* the result is validated again; only a loaded configuration serves       *)
(* turns.  An optional value is a sequence of length 0 (None) or 1.        *)
(***************************************************************************)
NoneValue == <<>>

\* state.database.dsn as the YAML gives it: missing or null, or a text
YamlDsns == {NoneValue, << <<>> >>, << <<" ">> >>, << <<"d">> >>, << <<" ", "d">> >>}

\* MOBIUS_STATE_DSN: unset, or a text
EnvDsns == {NoneValue, << <<" ">> >>, << <<"d">> >>}

\* MOBIUS_STATE_ENABLED: unset, or a text
EnvEnableds == {NoneValue, <<"">>, <<"true">>, <<"True">>, <<"off">>}

\* schema versions "0001", "0002"
SchemaVersions == {1, 2}

\* str.lower() on the values of MOBIUS_STATE_ENABLED
EnvLower(s) == IF s = "True" THEN "true" ELSE s

\* StateDatabaseConfig._dsn_non_empty_if_set
DsnNonEmptyIfSet(value) ==
    IF value = NoneValue THEN NoneValue
    ELSE IF Strip(value[1]) = <<>> THEN NoneValue ELSE <<Strip(value[1])>>

\* not self.database.dsn
DsnFalsy(dsn) == dsn = NoneValue \/ dsn[1] = <<>>

\* (as if the validator checked the schema versions only)
ValidateEnabledDsnSkipsDsn(state) ==
    ~state.enabled \/ state.min_schema_version <= state.max_schema_version

\* StateConfig._validate_enabled_dsn: TRUE when it returns, FALSE when it raises
ValidateEnabledDsn(state) ==
    \/ ~state.enabled
    \/ /\ ~DsnFalsy(state.dsn)
       /\ state.min_schema_version <= state.max_schema_version

\* AppConfig.model_validate on the state section: field validators, then
\* the model validator
ModelValidate(state) ==
    LET fields == [state EXCEPT !.dsn = DsnNonEmptyIfSet(@)]
    IN  [ ok |-> ValidateEnabledDsn(fields), state |-> fields ]

\* the MOBIUS_STATE_ENABLED and MOBIUS_STATE_DSN overrides
EnvOverrides(state, env) ==
    LET e1 == IF env.enabled # NoneValue /\ env.enabled[1] # ""
              THEN [state EXCEPT !.enabled =
                        EnvLower(env.enabled[1]) \in {"1", "true", "yes", "on"}]
              ELSE state
    IN  IF env.dsn # NoneValue /\ env.dsn[1] # <<>>
        THEN [e1 EXCEPT !.dsn =
                 IF Strip(env.dsn[1]) = <<>> THEN NoneValue ELSE <<Strip(env.dsn[1])>>]
        ELSE e1

ConfigInit ==
    /\ \E enabled \in BOOLEAN, dsn \in YamlDsns, lo \in SchemaVersions, hi \in SchemaVersions,
          envEnabled \in EnvEnableds, envDsn \in EnvDsns :
        cfg = [ pc |-> "raw",
                env |-> [enabled |-> envEnabled, dsn |-> envDsn],
                state |-> [ enabled |-> enabled, dsn |-> dsn,
                            min_schema_version |-> lo, max_schema_version |-> hi ],
                turns |-> 0 ]
    /\ db = EmptyDb
    /\ guard = GuardIdle
    /\ paused = TRUE
    /\ tx = [p \in Conns |-> IdleTx]
    /\ calls = <<>>
    /\ faults = 0
    /\ events = {}
    /\ turns = [t \in Turns |-> IdleTurn]
    /\ mirror = EmptyMirror
    /\ engine = EngineIdle
    /\ merger = MergerIdle

\* config = AppConfig.model_validate(expanded)
ValidateYaml ==
    /\ cfg.pc = "raw"
    /\ LET v == ModelValidate(cfg.state)
       IN  cfg' = [cfg EXCEPT !.pc = IF v.ok THEN "validated" ELSE "rejected",
                              !.state = v.state]

\* the runtime overrides from the environment
ApplyEnvOverrides ==
    /\ cfg.pc = "validated"
    /\ cfg' = [cfg EXCEPT !.pc = "overridden", !.state = EnvOverrides(@, cfg.env)]

\* return AppConfig.model_validate(config.model_dump())
Revalidate ==
    /\ cfg.pc = "overridden"
    /\ LET v == ModelValidate(cfg.state)
       IN  cfg' = [cfg EXCEPT !.pc = IF v.ok THEN "loaded" ELSE "rejected",
                              !.state = v.state]

\* the server runs with the loaded configuration and processes a turn
ServeTurn ==
    /\ cfg.pc = "loaded"
    /\ cfg.turns < MaxCalls
    /\ cfg' = [cfg EXCEPT !.turns = @ + 1]

ConfigNext ==
    /\ \/ ValidateYaml
       \/ ApplyEnvOverrides
       \/ Revalidate
       \/ ServeTurn
    /\ UNCHANGED <<db, tx, calls, faults, guard, paused, events, turns, mirror, engine, merger>>

ConfigSpec == ConfigInit /\ [][ConfigNext]_vars

----
\* state.enabled with a DSN that is missing, null or blank
EnabledWithoutDsn(state) ==
    /\ state.enabled
    /\ (state.dsn = NoneValue \/ Strip(state.dsn[1]) = <<>>)

\* C22: a configuration with state.enabled = true and no database DSN
\* (missing, null or blank) never leaves validation: it is rejected when the
\* YAML is validated and again after the environment overrides, so no turn
\* is processed with state enabled and an empty DSN.
C22_EnabledWithoutDsnIsRejected ==
    /\ cfg.pc \in {"validated", "loaded"} => ~EnabledWithoutDsn(cfg.state)
    /\ cfg.turns > 0 => ~EnabledWithoutDsn(cfg.state)

\* state was switched on by the environment with no DSN anywhere: rejected
C22_Witness ==
    /\ cfg.pc = "rejected"
    /\ cfg.env.enabled = <<"True">>
    /\ EnabledWithoutDsn(cfg.state)
    /\ cfg.turns = 0

(***************************************************************************)
(* ShapeSpec: _payload_has_required_shape on a parsed model payload.  A    *)
(* JSON value is absent, a number, a boolean, a string or an object.       *)
(***************************************************************************)
Absent == [t |-> "absent"]
Number == [t |-> "int"]
Bool(b) == [t |-> "bool", b |-> b]
Str(s) == [t |-> "str", s |-> s]

SomeText == Str(<<"t">>)

\* the values a string field of a block takes
FieldValues == {Absent, Number, Str(<<>>), SomeText}

\* the values of a block's reason
ReasonValues == {Absent, Number, Str(<<>>), Str(<<" ">>), SomeText}

\* the values of a block's write
WriteValues == {Absent, Number, Bool(TRUE), Bool(FALSE)}

\* required = (...) for the block
RequiredFields(block_name) ==
    IF block_name = "checkin"
    THEN {"domain", "track_type", "title", "summary", "outcome", "evidence"}
    ELSE {"domain", "memory", "evidence"}

\* the blocks of one channel: every required field holds a text but one
Blocks(block_name) ==
    {Number} \cup
    { [t |-> "dict", write |-> w, reason |-> r,
       fields |-> [f \in RequiredFields(block_name) |-> IF f = k THEN v ELSE SomeText]] :
        w \in WriteValues, r \in ReasonValues,
        k \in RequiredFields(block_name), v \in FieldValues }

\* the parsed payloads
ShapePayloads ==
    [ checkin : Blocks("checkin"), memory : Blocks("memory"),
      reason : {Absent, Str(<<>>), SomeText} ]

\* isinstance(value, str)
IsStr(v) == v.t = "str"

\* the checks of one block in the loop of _payload_has_required_shape
BlockHasRequiredShape(block_name, block) ==
    /\ block.t = "dict"
    /\ block.write.t = "bool"
    /\ IsStr(block.reason)
    /\ Strip(block.reason.s) # <<>>
    /\ block.write.b => \A key \in RequiredFields(block_name) : IsStr(block.fields[key])

\* _payload_has_required_shape
PayloadHasRequiredShape(payload) ==
    /\ payload.checkin.t = "dict"
    /\ payload.memory.t = "dict"
    /\ IsStr(payload.reason)
    /\ BlockHasRequiredShape("checkin", payload.checkin)
    /\ BlockHasRequiredShape("memory", payload.memory)

ShapeInit ==
    /\ engine \in [pc : {"parsed"}, payload : ShapePayloads, feedback : {""}]
    /\ cfg = DefaultCfg
    /\ guard = GuardIdle
    /\ paused = TRUE
    /\ db = EmptyDb
    /\ tx = [p \in Conns |-> IdleTx]
    /\ calls = <<>>
    /\ faults = 0
    /\ events = {}
    /\ turns = [t \in Turns |-> IdleTurn]
    /\ mirror = EmptyMirror
    /\ merger = MergerIdle

\* the shape test of an attempt: the payload goes on to
\* _decision_from_payload, or the attempt fails with the schema feedback
CheckShape ==
    /\ engine.pc = "parsed"
    /\ engine' =
        IF PayloadHasRequiredShape(engine.payload)
        THEN [engine EXCEPT !.pc = "accepted"]
        ELSE [engine EXCEPT !.pc = "failed", !.feedback = RetryFeedback("shape")]
    /\ UNCHANGED <<db, tx, calls, faults, cfg, guard, paused, events, turns, mirror, merger>>

ShapeNext == CheckShape

ShapeSpec == ShapeInit /\ [][ShapeNext]_vars

----
NonEmptyStr(v) == v.t = "str" /\ v.s # <<>>

\* the shape the specification requires of one block
BlockAsSpecified(block_name, block) ==
    /\ block.t = "dict"
    /\ block.write.t = "bool"
    /\ NonEmptyStr(block.reason)
    /\ block.write.b => \A key \in RequiredFields(block_name) : NonEmptyStr(block.fields[key])

\* C24: a parsed payload is accepted only if both channel blocks are
\* objects, each with a boolean write and a non-empty string reason, and
\* every block with write = true has each field required for its channel as
\* a non-empty string; any other payload is a failed attempt.
C24_AcceptedPayloadHasRequiredFields ==
    /\ engine.pc = "accepted" =>
          /\ BlockAsSpecified("checkin", engine.payload.checkin)
          /\ BlockAsSpecified("memory", engine.payload.memory)
    /\ engine.pc = "failed" => engine.feedback # ""

----
\* the slug occurs in the sequence exactly once
OnceIn(x, q) == Cardinality({i \in DOMAIN q : q[i] = x}) = 1

\* C25: the shortlist given to the verification model is the union, keyed by
\* slug, of the recency and the similarity candidates: every slug returned
\* by either source is in the shortlist, exactly once.
C25_ShortlistIsUnionOfCandidates ==
    merger.pc = "verify" =>
        \A g \in MergeSlugs :
            (InSeq(g, merger.candidates) \/ InSeq(g, merger.semantic))
                => OnceIn(g, merger.shortlist)

\* the verification model was called in this apply
Asked == merger.attempt > 1 \/ merger.accepted.kind # "none"

\* C26: when the embedding call or the similarity query raises,
\* _resolve_semantic_merge_slug does not raise and does not skip the
\* adjudication: the shortlist is the recency candidates and the
\* verification model is still asked.
C26_SearchFailureKeepsRecencyShortlist ==
    merger.search_failed =>
        /\ merger.candidates # <<>>
        /\ merger.shortlist = merger.candidates
        /\ merger.pc \in {"verify", "write", "sync", "written", "raised"}
        /\ merger.pc # "verify" => Asked

C26_Witness ==
    /\ merger.search_failed
    /\ merger.pc = "written"
    /\ merger.status = "applied"
    /\ merger.accepted.kind = "merge"
    /\ merger.merge_slug = merger.candidates[1]
    /\ merger.merge_slug # merger.title_slug

----
\* the semantic_documents rows of the card the write went into
DocsOf(d, m) == {s \in d.docs : s.source_type = "memory_card" /\ s.source_id = ResultRef(d, m)}

\* C27: after every memory write that returns applied with semantic merge
\* enabled, exactly one semantic_documents row exists for the card and it
\* holds the embedding of the text of that write; a write that returns
\* skipped_duplicate triggers no embedding upsert.
C27_AppliedWriteHasOneEmbedding ==
    merger.pc = "written" =>
        /\ (cfg.enabled /\ merger.status = "applied") =>
              /\ Cardinality(DocsOf(db, merger)) = 1
              /\ \A s \in DocsOf(db, merger) : s.text_content = merger.n
        /\ merger.status = "skipped_duplicate" => db.docs = merger.pre_docs

(***************************************************************************)
(* OpsLogSpec: the turns of one user, each applying one write and then     *)
(* exporting the projection, so that the ledger grows past the number of   *)
(* rows ops.log is rendered from.                                          *)
(***************************************************************************)
MaxLedgerRows == 502

OpsLogInit ==
    /\ db = EmptyDb
    /\ mirror = EmptyMirror
    /\ turns = [t \in Turns |-> IdleTurn]
    /\ cfg = DefaultCfg
    /\ guard = GuardIdle
    /\ paused = FALSE
    /\ tx = [p \in Conns |-> IdleTx]
    /\ calls = <<>>
    /\ faults = 0
    /\ events = {}
    /\ engine = EngineIdle
    /\ merger = MergerIdle

\* a turn's memory write is applied: one more write_operations row
OpsWrite ==
    /\ turns[1].pc = IdleTurn.pc
    /\ Cardinality(db.ledger) < MaxLedgerRows
    /\ LET id == Cardinality(db.ledger) + 1
       IN  db' = [db EXCEPT !.ledger = @ \cup
                     {[ id |-> id, user |-> "u1", key |-> ToString(id),
                        channel |-> "memory", status |-> "applied", ref |-> 1 ]}]
    /\ turns' = [turns EXCEPT ![1].pc = "export"]
    /\ UNCHANGED mirror

\* projection_sync.export_user after the applied write
OpsExport ==
    /\ turns[1].pc = "export"
    /\ mirror' = [mirror EXCEPT !["u1"] = RenderedRows(db, "u1")]
    /\ turns' = [turns EXCEPT ![1].pc = IdleTurn.pc]
    /\ UNCHANGED db

OpsLogNext ==
    /\ \/ OpsWrite
       \/ OpsExport
    /\ UNCHANGED <<tx, calls, faults, cfg, guard, paused, events, engine, merger>>

OpsLogSpec == OpsLogInit /\ [][OpsLogNext]_vars

----
\* C28: ops.log is append-only: every ledger entry in a user's ops.log after
\* one export_user is still in it after every later export_user, for any
\* number of ledger rows.
C28_OpsLogAppendOnly ==
    [][\A u \in Users : mirror[u] \subseteq mirror'[u]]_vars

(***************************************************************************)
(* ContextSpec: context_for_prompt on a store that earlier writes filled.  *)
(* turns[1] holds the last call: its user, whether the store raised, and   *)
(* in items the returned context.                                          *)
(***************************************************************************)
\* state.retrieval.*_limit
RetrievalLimit == 5

\* ORDER BY <at> DESC LIMIT n
Newest(rows, n, at) ==
    IF Cardinality(rows) <= n THEN rows
    ELSE {r \in rows : Cardinality({q \in rows : q[at] > r[at]}) < n}

\* StateContextSnapshot()
EmptySnapshot == [active_tracks |-> {}, recent_checkins |-> {}, recent_memory_cards |-> {}]

\* PostgresStore.fetch_context_snapshot
FetchContextSnapshot(d, user) ==
    [ active_tracks |->
        Newest({r \in d.tracks : r.user = user /\ r.status = "active"},
               RetrievalLimit, "last_checkin_at"),
      recent_checkins |->
        Newest({r \in d.checkins : r.user = user}, RetrievalLimit, "ts"),
      recent_memory_cards |->
        Newest({r \in d.cards : r.user = user}, RetrievalLimit, "last_seen") ]

\* the text "" of an empty context
NoContext == <<>>

\* StatePipeline._format_context: a header and one line per row for each
\* section that has rows; "" when there are none
FormatContext(snapshot) ==
    LET section(name, rows, line(_)) ==
            IF rows = {} THEN <<>> ELSE <<[section |-> name, lines |-> {line(r) : r \in rows}]>>
    IN  section("Active tracks:", snapshot.active_tracks,
                LAMBDA r : <<r.slug, r.status, r.last_checkin_at>>)
        \o section("Recent check-ins:", snapshot.recent_checkins,
                   LAMBDA r : <<r.track, r.ts>>)
        \o section("Recent memories:", snapshot.recent_memory_cards,
                   LAMBDA r : <<r.domain, r.slug, r.occurrences>>)

ContextInit ==
    /\ paused \in BOOLEAN
    /\ cfg \in [ strict_grounding : {TRUE}, facts_only : {TRUE},
                 on_failure : {"footer_warning"}, enabled : BOOLEAN ]
    /\ db = EmptyDb
    /\ turns = [t \in Turns |-> IdleTurn]
    /\ guard = GuardIdle
    /\ tx = [p \in Conns |-> IdleTx]
    /\ calls = <<>>
    /\ faults = 0
    /\ events = {}
    /\ mirror = EmptyMirror
    /\ engine = EngineIdle
    /\ merger = MergerIdle

\* a write_checkin or write_memory call that filled the store
StoredWrite ==
    /\ Cardinality(db.ledger) < MaxCalls
    /\ \E op \in Ops, user \in Users, key \in Keys :
        LET id == Cardinality(db.ledger) + 1
            w == [IdleTx EXCEPT !.id = id, !.op = op, !.user = user, !.key = key, !.now = id,
                                !.turn = id]
        IN  db' = ApplyWrite(db, w).db
    /\ UNCHANGED turns

\* StatePipeline.context_for_prompt
ContextForPrompt ==
    /\ \E user \in Users, raises \in BOOLEAN :
        turns' = [turns EXCEPT ![1] =
            [IdleTurn EXCEPT
                !.pc = "context", !.user = user, !.raised = raises,
                !.items =
                    IF ~cfg.enabled \/ paused THEN NoContext
                    ELSE IF raises THEN NoContext
                    ELSE FormatContext(FetchContextSnapshot(db, user))]]
    /\ UNCHANGED db

ContextNext ==
    /\ \/ StoredWrite
       \/ ContextForPrompt
    /\ UNCHANGED <<tx, calls, faults, cfg, guard, paused, events, mirror, engine, merger>>

ContextSpec == ContextInit /\ [][ContextNext]_vars

----
\* C29: while the write pause is on, the read path stays active:
\* context_for_prompt still returns the user's context rendered from the
\* stored snapshot (active tracks, recent check-ins, recent memories).
C29_PausedContextStillRendered ==
    (turns[1].pc = "context" /\ paused /\ cfg.enabled /\ ~turns[1].raised) =>
        turns[1].items = FormatContext(FetchContextSnapshot(db, turns[1].user))

----
\* the entry, normalized, occurs in the normalized user text
EntryGrounded(item) ==
    /\ NormalizeText(item) # <<>>
    /\ IsSubstring(NormalizeText(item), NormalizeText(guard.user_text))

\* C30: with facts_only on, a check-in write that survives the guard has its
\* summary equal to its evidence text, and each of wins, barriers and
\* next_actions holds exactly the entries of the model's list that occur in
\* the normalized user text, in their original order.
C30_FactsOnlyCheckinIsLiteral ==
    (guard.pc = "out" /\ cfg.facts_only /\ guard.out.checkin # NoWrite) =>
        LET w == guard.out.checkin[1]
            given == guard.decision.checkin[1]
        IN  /\ w.summary = w.evidence
            /\ w.wins = SelectSeq(given.wins, EntryGrounded)
            /\ w.barriers = SelectSeq(given.barriers, EntryGrounded)
            /\ w.next_actions = SelectSeq(given.next_actions, EntryGrounded)

----
\* _decision_from_payload: the CheckinWrite built from a check-in block.
\* Numbers are in tenths (10 is 1.0); NotANumber is float("nan").

MaxItems == 3
MaxLimit == 2

\* max_tags = 8
MaxTags == 8

NotANumber == [t |-> "nan"]
Float(x) == [t |-> "float", x |-> x]
List(items) == [t |-> "list", items |-> items]

\* bool(value) of a parsed JSON value
Truthy(v) ==
    CASE v.t = "absent" -> FALSE
      [] v.t = "str" -> v.s # <<>>
      [] v.t = "bool" -> v.b
      [] v.t = "float" -> v.x # 0
      [] v.t = "list" -> v.items # <<>>
      [] OTHER -> TRUE

\* str(value) of a truthy value
PyStr(v) ==
    CASE v.t = "str" -> v.s
      [] v.t = "bool" -> <<"T", "r", "u", "e">>
      [] v.t = "int" -> <<"5">>
      [] v.t = "float" -> <<"0", ".", "5">>
      [] v.t = "nan" -> <<"n", "a", "n">>
      [] OTHER -> <<"[", "]">>

\* str(value or default)
StrOr(v, default) == IF Truthy(v) THEN PyStr(v) ELSE default

\* (as if blank entries were kept)
NormalizeItemsKeepsBlank(values, limit) ==
    IF values.t # "list" THEN <<>>
    ELSE LET texts == [i \in 1..Len(values.items) |-> Strip(StrOr(values.items[i], <<>>))]
         IN  SubSeq(texts, 1, IF Len(texts) < limit THEN Len(texts) ELSE limit)

\* _normalize_items: the loop appends the stripped non-blank texts and breaks
\* once the result has limit entries
RECURSIVE NormalizeLoop(_, _, _)
NormalizeLoop(items, normalized, limit) ==
    IF items = <<>> THEN normalized
    ELSE LET text == Strip(StrOr(Head(items), <<>>))
         IN  IF text = <<>> THEN NormalizeLoop(Tail(items), normalized, limit)
             ELSE IF Len(normalized) + 1 >= limit THEN Append(normalized, text)
             ELSE NormalizeLoop(Tail(items), Append(normalized, text), limit)

NormalizeItems(values, limit) ==
    IF values.t # "list" THEN <<>> ELSE NormalizeLoop(values.items, <<>>, limit)

TrackTypes == {<<"g", "o", "a", "l">>, <<"h", "a", "b", "i", "t">>, <<"s", "y", "s", "t", "e", "m">>}

\* _normalize_track_type
NormalizeTrackType(raw) ==
    LET candidate == LowerText(Strip(raw))
    IN  IF candidate \in TrackTypes THEN candidate ELSE <<"g", "o", "a", "l">>

Outcomes == {<<"w", "i", "n">>, <<"p", "a", "r", "t", "i", "a", "l">>, <<"m", "i", "s", "s">>, <<"n", "o", "t", "e">>}

\* outcome = str(block.get("outcome") or "note").strip().lower(), "note" if not in the set
NormalizeOutcome(v) ==
    LET outcome == LowerText(Strip(StrOr(v, <<"n", "o", "t", "e">>)))
    IN  IF outcome \in Outcomes THEN outcome ELSE <<"n", "o", "t", "e">>

\* a < b on floats: every comparison with nan is false
FloatLt(a, b) == a.t = "float" /\ b.t = "float" /\ a.x < b.x

\* min(a, b) and max(a, b) of Python: the first argument unless the second beats it
PyMin(a, b) == IF FloatLt(b, a) THEN b ELSE a
PyMax(a, b) == IF FloatLt(a, b) THEN b ELSE a

\* float(value): the values float() accepts, <<>> when it raises
ToFloat(v) ==
    CASE v.t = "float" -> <<v>>
      [] v.t = "nan" -> <<v>>
      [] v.t = "int" -> <<Float(50)>>
      [] v.t = "bool" -> <<Float(IF v.b THEN 10 ELSE 0)>>
      [] v.t = "str" /\ v.s = <<"5">> -> <<Float(50)>>
      [] OTHER -> <<>>

\* confidence: None when absent or not a number, else max(0.0, min(1.0, float(raw)))
Confidence(raw) ==
    IF raw.t = "absent" \/ ToFloat(raw) = <<>> THEN <<>>
    ELSE <<PyMax(Float(0), PyMin(Float(10), ToFloat(raw)[1]))>>

\* source_user_text of the calls modelled, and routed_domain
SourceUserText == <<"t">>
RoutedDomain == "health"

\* the CheckinWrite of a block with write true
CheckinFromBlock(block, c) ==
    [ domain |-> RoutedDomain,
      track_type |-> NormalizeTrackType(StrOr(block.track_type, <<>>)),
      title |-> IF Strip(StrOr(block.title, <<>>)) # <<>>
                THEN Strip(StrOr(block.title, <<>>)) ELSE SourceUserText,
      summary |-> IF Strip(StrOr(block.summary, <<>>)) # <<>>
                  THEN Strip(StrOr(block.summary, <<>>)) ELSE SourceUserText,
      outcome |-> NormalizeOutcome(block.outcome),
      confidence |-> Confidence(block.confidence),
      wins |-> NormalizeItems(block.wins, c.max_wins),
      barriers |-> NormalizeItems(block.barriers, c.max_barriers),
      next_actions |-> NormalizeItems(block.next_actions, c.max_next_actions),
      tags |-> NormalizeItems(block.tags, MaxTags),
      evidence |-> Strip(StrOr(block.evidence, <<>>)) ]

\* the check-in part of _decision_from_payload
CheckinOfPayload(block, c) ==
    IF c.enabled /\ block.t = "dict" /\ Truthy(block.write)
    THEN <<CheckinFromBlock(block, c)>> ELSE NoWrite

\* the entries of a list sent by the model
ItemValues == {Absent, Str(<<" ">>), Str(<<" ", "t">>)}

ItemLists ==
    {Absent, Number, List([i \in 1..(MaxTags + 1) |-> SomeText])}
    \cup {List(l) : l \in UNION {[1..n -> ItemValues] : n \in 0..MaxItems}}

TrackTypeValues ==
    {Absent, Str(<<" ", "H", "a", "b", "i", "t">>), Str(<<"s", "y", "s", "t", "e", "m">>), Str(<<"t">>)}

OutcomeValues ==
    {Absent, Str(<<"w", "I", "n", " ">>), Str(<<"m", "i", "s", "s">>), Str(<<"t">>)}

ConfidenceValues ==
    {Absent, NotANumber, Number, Str(<<"t">>), Float(0 - 5), Float(0), Float(5), Float(15)}

\* the check-in blocks of the accepted payloads
CheckinBlocks ==
    {Number} \cup
    { [t |-> "dict", write |-> w, track_type |-> tt, title |-> SomeText, summary |-> Str(<<>>),
       outcome |-> o, confidence |-> cf, wins |-> l, barriers |-> l, next_actions |-> l,
       tags |-> l, evidence |-> SomeText] :
        w \in {Bool(TRUE), Bool(FALSE)}, tt \in TrackTypeValues, o \in OutcomeValues,
        cf \in ConfidenceValues, l \in ItemLists }

NormalizeInit ==
    /\ engine \in [pc : {"accepted"}, block : CheckinBlocks, out : {NoWrite}]
    /\ cfg \in [enabled : BOOLEAN, max_wins : 1..MaxLimit, max_barriers : 1..MaxLimit,
                max_next_actions : 1..MaxLimit]
    /\ guard = GuardIdle
    /\ paused = TRUE
    /\ db = EmptyDb
    /\ tx = [p \in Conns |-> IdleTx]
    /\ calls = <<>>
    /\ faults = 0
    /\ events = {}
    /\ turns = [t \in Turns |-> IdleTurn]
    /\ mirror = EmptyMirror
    /\ merger = MergerIdle

\* _decision_from_payload on the accepted payload
DecisionFromPayload ==
    /\ engine.pc = "accepted"
    /\ engine' = [engine EXCEPT !.pc = "decided", !.out = CheckinOfPayload(engine.block, cfg)]
    /\ UNCHANGED <<db, tx, calls, faults, cfg, guard, paused, events, turns, mirror, merger>>

NormalizeNext == DecisionFromPayload

NormalizeSpec == NormalizeInit /\ [][NormalizeNext]_vars

----
NoBlankWithin(items, limit) ==
    /\ Len(items) <= limit
    /\ \A i \in 1..Len(items) : Strip(items[i]) # <<>>

----
\* write_checkin with the track slug derived from the title: CheckinSpec runs
\* the transactions of StoreSpec on one user's check-in calls, which carry a
\* title.

\* the characters [a-z0-9] of the texts in use
SlugChars == {"i", "t", "h", "5"}

\* re.sub(r"[^a-z0-9]+", "-", lowered)
RECURSIVE DashRuns(_)
DashRuns(s) ==
    IF s = <<>> THEN <<>>
    ELSE IF Head(s) \in SlugChars THEN <<Head(s)>> \o DashRuns(Tail(s))
    ELSE IF Len(s) > 1 /\ s[2] \notin SlugChars THEN DashRuns(Tail(s))
    ELSE <<"-">> \o DashRuns(Tail(s))

\* str.strip("-")
RECURSIVE StripDashes(_)
StripDashes(s) ==
    IF s = <<>> THEN <<>>
    ELSE IF Head(s) = "-" THEN StripDashes(Tail(s))
    ELSE IF s[Len(s)] = "-" THEN StripDashes(SubSeq(s, 1, Len(s) - 1))
    ELSE s

\* _slugify
Slugify(value, fallback) ==
    LET normalized == StripDashes(DashRuns(LowerText(Strip(value))))
    IN  IF normalized # <<>> THEN normalized ELSE fallback

GeneralCheckin == <<"g", "e", "n", "e", "r", "a", "l", "-", "c", "h", "e", "c", "k", "i", "n">>

\* (as if the domain were always put in front)
TrackSlugAlwaysPrefixes(domain, title) ==
    domain \o <<"-">> \o Slugify(title, GeneralCheckin)

\* track_slug of write_checkin
TrackSlug(domain, title) ==
    LET title_slug == Slugify(title, GeneralCheckin)
    IN  IF StartsWith(title_slug, domain \o <<"-">>) THEN title_slug
        ELSE domain \o <<"-">> \o title_slug

\* payload.domain and payload.title of the check-in writes
CheckinDomains == {<<"h">>}
Titles == {<<"T">>, <<"H", "!", " ", "t">>, <<"!">>}

CheckinInit == StoreInit

\* a caller enters write_checkin: the slug, now = datetime.now(), connect
StartCheckin(p) ==
    /\ tx[p].pc = "idle"
    /\ Len(calls) < MaxCalls
    /\ \E user \in {"u1"}, key \in FreshOrUsed(Keys, "k1", UsedKeys),
          domain \in CheckinDomains, title \in Titles :
        LET id == Len(calls) + 1 IN
        /\ tx' = [tx EXCEPT ![p] =
                [ pc |-> "begin", id |-> id, op |-> "checkin", user |-> user, key |-> key,
                  domain |-> domain, slug |-> TrackSlug(domain, title), narrative |-> "",
                  now |-> id, turn |-> id, row |-> NoId, occ |-> 0 ]]
        /\ calls' = Append(calls,
                [ op |-> "checkin", user |-> user, key |-> key, domain |-> domain,
                  slug |-> TrackSlug(domain, title), title |-> title, narrative |-> "",
                  pre |-> Ended, status |-> "running", err |-> "none", wrote |-> FALSE ])
    /\ UNCHANGED <<db, faults>>

CheckinNext ==
    /\ \E p \in Conns :
        \/ StartCheckin(p)
        \/ BeginWriteOperation(p)
        \/ SelectForUpdate(p)
        \/ Upsert(p)
        \/ Commit(p)
        \/ Fault(p)
    /\ UNCHANGED <<cfg, guard, paused, events, turns, mirror, engine, merger>>

CheckinSpec == CheckinInit /\ [][CheckinNext]_vars

----
\* the call returns applied in this step
ReturnsApplied(i) ==
    /\ i \in 1..Len(calls)
    /\ calls[i].status = "running"
    /\ calls'[i].status = "applied"

\* the title's slug, with the domain in front unless it is there already
DomainPrefixed(domain, title) ==
    LET title_slug == Slugify(title, GeneralCheckin)
        prefix == domain \o <<"-">>
    IN  IF Len(title_slug) >= Len(prefix) /\ SubSeq(title_slug, 1, Len(prefix)) = prefix
        THEN title_slug ELSE prefix \o title_slug

\* the step appends one event to the track of call i and nothing else
AppendsOneEvent(i) ==
    LET c == calls[i]
        slug == DomainPrefixed(c.domain, c.title)
        before == TrackRows(db, c.user, slug)
        after == TrackRows(db', c.user, slug)
        added == db'.checkins \ db.checkins
    IN  /\ db.checkins \subseteq db'.checkins
        /\ Cardinality(added) = 1
        /\ Cardinality(after) = 1
        /\ \A e \in added, r \in after :
            /\ e.track = r.id
            /\ e.user = c.user
            /\ r.last_checkin_at = e.ts
            /\ before = {} => r.status = "active"
            /\ before # {} => IdOf(before) = r.id

----
EvidenceOf(d, card) == {e \in d.evidence : e.card = card.id}

\* the step appends one evidence row, of the call's turn and card
AppendsOneEvidence(p) ==
    LET t == tx[p]
        card == CardRows(db', t.user, t.domain, t.slug)
        added == db'.evidence \ db.evidence
    IN  /\ db.evidence \subseteq db'.evidence
        /\ Cardinality(added) = 1
        /\ Cardinality(card) = 1
        /\ \A e \in added : e.evidence_ref = t.turn /\ e.card = IdOf(card)

MemoryReturnsApplied(p) == tx[p].op = "memory" /\ ReturnsApplied(tx[p].id)

\* C33: a write_memory call that returns applied appends exactly one evidence
\* row naming its turn and the card it resolved to, every other step (a
\* skipped_duplicate or failed call among them) appends none, and in every
\* committed state a card has as many evidence rows as its occurrences.
C33_OneEvidencePerAppliedMemoryWrite ==
    /\ [](\A c \in db.cards : Cardinality(EvidenceOf(db, c)) = c.occurrences)
    /\ [][ /\ \A p \in Conns : MemoryReturnsApplied(p) => AppendsOneEvidence(p)
           /\ (\A p \in Conns : ~MemoryReturnsApplied(p)) => db'.evidence = db.evidence ]_vars

\* a card written by two applied calls, with a duplicate and a failed call
\* beside them
C33_Witness ==
    /\ \E c \in db.cards : c.occurrences = 2 /\ Cardinality(EvidenceOf(db, c)) = 2
    /\ \E i \in 1..Len(calls) :
        calls[i].op = "memory" /\ calls[i].status \in {"skipped_duplicate", "raised"}

----
NoWriteDecision(decision) == decision.checkin = NoWrite /\ decision.memory = NoWrite

\* the step is taken by a process_turn call whose decision holds a write
StepOfWritingTurn ==
    \E t \in Turns :
        /\ turns'[t] # turns[t]
        /\ turns[t].decision # <<>>
        /\ ~NoWriteDecision(turns[t].decision[1])

\* C34: process_turn with a decision that holds no write makes no store
\* mutation (no users row, turn event, ledger row or domain row is created
\* or changed): every step that changes a table is a step of a turn whose
\* decision holds a write.  context_for_prompt and preview_turn, with the
\* fetch_context_snapshot they call, change no table and create no user.
C34_NoWritesNoMutation ==
    [][ /\ (db' # db \/ events' # events) => StepOfWritingTurn
        /\ guard' # guard => (db' = db /\ events' = events) ]_vars

\* a turn of a user without a users row ended on a decision without writes,
\* after another user's turn had written; a read for that user is in progress
C34_Witness ==
    /\ turns[1].pc = "done" /\ Wrote(1, "checkin", "applied")
    /\ turns[2].pc = "done" /\ turns[2].user = "u2"
    /\ turns[2].decision # <<>> /\ NoWriteDecision(turns[2].decision[1])
    /\ FindUserId(db, "u1") # {} /\ FindUserId(db, "u2") = {}
    /\ guard # GuardIdle /\ guard.user = "u2"

----
\* the text is empty or holds only whitespace
Blank(text) == \A i \in 1..Len(text) : IsSpace(text[i])

\* C35: for a user text that is empty or only whitespace, decide returns a
\* decision with no check-in and no memory and is_failure false, and makes
\* no model call.
C35_BlankTextShortCircuits ==
    Blank(engine.user_text) =>
        /\ engine.calls = <<>>
        /\ engine.pc \in {"idle", "done"}
        /\ engine.pc = "done" =>
              /\ Len(engine.result) = 1
              /\ engine.result[1].checkin = NoWrite
              /\ engine.result[1].memory = NoWrite
              /\ ~engine.result[1].is_failure

\* decide returned for a whitespace text while the engine is enabled
C35_Witness ==
    /\ engine.pc = "done"
    /\ engine.enabled
    /\ engine.user_text = <<" ">>
    /\ engine.result = <<EmptyTextDecision>>

----
\* turn i committed its check-in and its memory write then raised; turn j is
\* a later call with the same user and payload that has returned
RerunAfterPartialFailure(i, j) ==
    /\ SameRequest(i, j)
    /\ i \in turns[j].pre
    /\ Wrote(i, "checkin", "applied")
    /\ turns[i].faulted = "memory"
    /\ turns[j].pc = "done"

RerunConverged(i, j) ==
    /\ Reports(j, "checkin", "skipped_duplicate")
    /\ Reports(j, "memory", "applied")
    /\ ~Wrote(j, "checkin", "applied")
    /\ ~Wrote(i, "memory", "applied")

----
EventsOf(d, track) == {e \in d.checkins : e.track = track.id}

\* C37: in every committed state a track's last_checkin_at is the greatest
\* timestamp among its check-in events (so it never moves backwards),
\* however the applied write_checkin calls on the track interleave.
C37_LastCheckinIsNewestEvent ==
    \A r \in db.tracks :
        /\ EventsOf(db, r) # {}
        /\ \A e \in EventsOf(db, r) : e.ts <= r.last_checkin_at
        /\ \E e \in EventsOf(db, r) : e.ts = r.last_checkin_at

----
\* The projection directory of a user: export_user writes below
\* <output_directory>/users/<_safe_path_part(user_key)>.

MaxKeyLen == 2

\* the characters [A-Za-z0-9_.-] of the keys in use
PathChars == {"a", ".", "-"}

\* re.sub(r"[^A-Za-z0-9_.-]+", "-", value.strip())
RECURSIVE UnsafeRuns(_)
UnsafeRuns(s) ==
    IF s = <<>> THEN <<>>
    ELSE IF Head(s) \in PathChars THEN <<Head(s)>> \o UnsafeRuns(Tail(s))
    ELSE IF Len(s) > 1 /\ s[2] \notin PathChars THEN UnsafeRuns(Tail(s))
    ELSE <<"-">> \o UnsafeRuns(Tail(s))

AnonymousPart == <<"a", "n", "o", "n", "y", "m", "o", "u", "s">>

\* _safe_path_part
SafePathPart(value) ==
    LET normalized == StripDashes(UnsafeRuns(Strip(value)))
    IN  IF normalized # <<>> THEN normalized ELSE AnonymousPart

\* root of export_user: the components below output_directory
ProjectionRoot(user_key) == << <<"u", "s", "e", "r", "s">>, SafePathPart(user_key) >>

\* the user keys of two users: not blank, as resolve_user_key returns them
UserKeys == UNION {[1..n -> {"a", ".", "-", "/"}] : n \in 1..MaxKeyLen}

PathInit ==
    /\ engine \in [pc : {"idle"}, user_keys : [1..2 -> UserKeys], roots : {<<>>}]
    /\ cfg = DefaultCfg
    /\ guard = GuardIdle
    /\ paused = TRUE
    /\ db = EmptyDb
    /\ tx = [p \in Conns |-> IdleTx]
    /\ calls = <<>>
    /\ faults = 0
    /\ events = {}
    /\ turns = [t \in Turns |-> IdleTurn]
    /\ mirror = EmptyMirror
    /\ merger = MergerIdle

\* export_user is called for one user and then for the other: root.mkdir
ExportRoots ==
    /\ Len(engine.roots) < 2
    /\ engine' = [engine EXCEPT
                    !.pc = "exported",
                    !.roots = Append(@, ProjectionRoot(engine.user_keys[Len(@) + 1]))]
    /\ UNCHANGED <<db, tx, calls, faults, cfg, guard, paused, events, turns, mirror, merger>>

PathNext == ExportRoots

PathSpec == PathInit /\ [][PathNext]_vars

----
\* the component names a directory of its own below users/
OneComponentBelow(part) ==
    /\ part # <<>>
    /\ part # <<".">>
    /\ part # <<".", ".">>
    /\ \A i \in 1..Len(part) : part[i] # "/"

\* C38: two different user keys never share a projection directory, and
\* every projection directory is <output_directory>/users/<one path
\* component>, a directory below users/.
C38_ProjectionDirInjectiveAndConfined ==
    Len(engine.roots) = 2 =>
        /\ engine.user_keys[1] # engine.user_keys[2] => engine.roots[1] # engine.roots[2]
        /\ \A i \in 1..2 : OneComponentBelow(engine.roots[i][2])

----
\* StatusSpec: the calls of one user on a store that already holds a track
\* in any of the statuses the tracks table allows.

\* CHECK (status IN ('active', 'paused', 'completed', 'archived'))
TrackStatuses == {"active", "paused", "completed", "archived"}

\* the tracks table before the calls: empty, or the user's track
ExistingTracks ==
    {{}} \cup { {[ id |-> 99, user |-> "u1", slug |-> "s1", status |-> st,
                   last_checkin_at |-> 0 ]} : st \in TrackStatuses }

StatusInit ==
    /\ \E existing \in ExistingTracks :
        /\ db = [EmptyDb EXCEPT !.tracks = existing]
        /\ engine = [pc |-> "idle", existing |-> existing]
    /\ cfg = DefaultCfg
    /\ guard = GuardIdle
    /\ paused = TRUE
    /\ events = {}
    /\ turns = [t \in Turns |-> IdleTurn]
    /\ mirror = EmptyMirror
    /\ merger = MergerIdle
    /\ tx = [p \in Conns |-> IdleTx]
    /\ calls = <<>>
    /\ faults = 0

\* the user's caller enters write_checkin or write_memory
StartUserCall(p) ==
    /\ tx[p].pc = "idle"
    /\ Len(calls) < MaxCalls
    /\ \E op \in Ops, key \in FreshOrUsed(Keys, "k1", UsedKeys) :
        LET id == Len(calls) + 1 IN
        /\ tx' = [tx EXCEPT ![p] =
                [IdleTx EXCEPT !.pc = "begin", !.id = id, !.op = op, !.key = key,
                               !.now = id, !.turn = id]]
        /\ calls' = Append(calls,
                [ op |-> op, user |-> "u1", key |-> key, domain |-> "health",
                  slug |-> "s1", narrative |-> "", pre |-> Ended,
                  status |-> "running", err |-> "none", wrote |-> FALSE ])
    /\ UNCHANGED <<db, faults>>

StatusNext ==
    /\ \E p \in Conns :
        \/ StartUserCall(p)
        \/ BeginWriteOperation(p)
        \/ SelectForUpdate(p)
        \/ Upsert(p)
        \/ Commit(p)
        \/ Fault(p)
    /\ UNCHANGED <<cfg, guard, paused, events, turns, mirror, engine, merger>>

StatusSpec == StatusInit /\ [][StatusNext]_vars

----
\* the step is the applied return of a write_checkin call on the track
AppliedCheckinOn(r) ==
    \E p \in Conns :
        /\ tx[p].op = "checkin"
        /\ ReturnsApplied(tx[p].id)
        /\ tx[p].user = r.user
        /\ tx[p].slug = r.slug

\* C39: a write_checkin call that returns applied leaves its track with
\* status active, whatever the status was before; no other step changes the
\* status of a track.
C39_AppliedCheckinActivatesTrack ==
    [][ /\ \A p \in Conns :
            (tx[p].op = "checkin" /\ ReturnsApplied(tx[p].id)) =>
                /\ TrackRows(db', tx[p].user, tx[p].slug) # {}
                /\ \A r \in TrackRows(db', tx[p].user, tx[p].slug) : r.status = "active"
        /\ \A r \in db.tracks :
            \/ AppliedCheckinOn(r)
            \/ \E q \in db'.tracks : q.id = r.id /\ q.status = r.status ]_vars

\* a track that was archived before the calls is active after an applied
\* check-in, with a memory write applied beside it
C39_Witness ==
    /\ \E r \in engine.existing : r.status = "archived"
    /\ \E r \in db.tracks : r.id = 99 /\ r.status = "active" /\ EventsOf(db, r) # {}
    /\ db.cards # {}

====
